---- MODULE Spec2Model ----
(***************************************************************************)
(* Codebase ingestion, vector index and RAG answer composition of the      *)
(* AI_Agents_Assemble backend (backend/app/services, backend/app/routers). *)
(*                                                                         *)
(* Representation of data                                                  *)
(*   bytes of a file : [unit, reps]  - the byte sequence `unit` repeated   *)
(*                     `reps` times (files of 1500+ bytes stay small)      *)
(*   text            : [unit, len]   - the first `len` characters of the   *)
(*                     code-point sequence `unit` repeated; a text longer  *)
(*                     than chunk_size holds no whitespace and no other    *)
(*                     separator of the splitter                           *)
(*   path            : the names of the ancestor directories, outermost    *)
(*                     first, and the file name                            *)
(***************************************************************************)
EXTENDS Integers, Sequences, FiniteSets, TLC

(***************************************************************************)
(* Bounds of the model                                                     *)
(***************************************************************************)
MaxFiles == 3

\* Chunks of one add_documents call on a VectorStore object
MaxStoreChunks == 3

(***************************************************************************)
(* Program constants                                                       *)
(***************************************************************************)
CODE_EXTENSIONS ==
    { ".py", ".js", ".jsx", ".ts", ".tsx", ".java", ".cpp", ".c", ".h", ".hpp",
      ".cs", ".go", ".rs", ".rb", ".php", ".swift", ".kt", ".scala", ".r",
      ".html", ".css", ".scss", ".sass", ".vue", ".svelte",
      ".json", ".yaml", ".yml", ".toml", ".xml", ".md", ".txt",
      ".sql", ".sh", ".bash", ".ps1", ".dockerfile" }

IGNORE_DIRS ==
    { "node_modules", "__pycache__", ".git", ".venv", "venv", "env",
      "dist", "build", "target", ".next", ".nuxt", "out",
      "coverage", ".pytest_cache", ".mypy_cache", ".tox",
      "vendor", "packages", "bin", "obj" }

IGNORE_FILES ==
    { ".DS_Store", "package-lock.json", "yarn.lock", "poetry.lock",
      "Pipfile.lock", ".gitignore", ".env", ".env.local" }

MAX_FILE_SIZE == 1000000

chunk_size == 1500

chunk_overlap == 200

encodings_Latin1First == << "latin-1", "utf-8", "cp1252" >>

encodings == << "utf-8", "latin-1", "cp1252" >>

(***************************************************************************)
(* Text                                                                    *)
(***************************************************************************)
EmptyText == [unit |-> << >>, len |-> 0]

MkText(unit, len) ==
    IF len = 0 \/ unit = << >> THEN EmptyText
    ELSE [unit |-> IF len < Len(unit) THEN SubSeq(unit, 1, len) ELSE unit, len |-> len]

\* The i-th character of a text, i in 1..text.len.
CharAt(text, i) == text.unit[((i - 1) % Len(text.unit)) + 1]

\* The unit of the text that starts k characters into the repetition of unit.
Rotate(unit, k) == [ i \in 1..Len(unit) |-> unit[((i - 1 + k) % Len(unit)) + 1] ]

\* text[start : start + n], start counted from 0.
Slice(text, start, n) == MkText(Rotate(text.unit, start), n)

\* Code points for which str.isspace() is true, among those below 256.
IsSpace(cp) == cp \in (9..13) \cup (28..32) \cup {133, 160}

AllSpace(unit) == \A i \in 1..Len(unit) : IsSpace(unit[i])

Strip_AsciiBlanksOnly(text) ==
    IF \A i \in 1..Len(text.unit) : text.unit[i] \in {9, 10, 13, 32} THEN EmptyText ELSE text

\* The number of whitespace characters the text begins with / ends with, for
\* a text that is not whitespace alone.
LeadingSpace(text) ==
    CHOOSE k \in 0..(Len(text.unit) - 1) :
        /\ ~ IsSpace(CharAt(text, k + 1))
        /\ \A j \in 1..k : IsSpace(CharAt(text, j))

TrailingSpace(text) ==
    CHOOSE k \in 0..(Len(text.unit) - 1) :
        /\ ~ IsSpace(CharAt(text, text.len - k))
        /\ \A j \in 0..(k - 1) : IsSpace(CharAt(text, text.len - j))

\* str.strip(): a text of whitespace alone strips to the empty text, any
\* other text loses the whitespace it begins and ends with.
Strip(text) ==
    IF AllSpace(text.unit) THEN EmptyText
    ELSE Slice(text, LeadingSpace(text),
               text.len - LeadingSpace(text) - TrailingSpace(text))

(***************************************************************************)
(* Decoding                                                                *)
(***************************************************************************)
DecodeFail == [ok |-> FALSE, cps |-> << >>]

\* UTF-8 over byte sequences made of one- and two-byte forms; any other
\* lead byte or a missing continuation byte is a decode error (the byte
\* units of the model hold no valid three- or four-byte form).
RECURSIVE Utf8Decode(_)
Utf8Decode(bs) ==
    IF bs = << >> THEN [ok |-> TRUE, cps |-> << >>]
    ELSE LET b == Head(bs) IN
         IF b < 128
         THEN LET r == Utf8Decode(Tail(bs)) IN
              IF r.ok THEN [ok |-> TRUE, cps |-> << b >> \o r.cps] ELSE DecodeFail
         ELSE IF b \in 194..223 /\ Len(bs) >= 2 /\ bs[2] \in 128..191
         THEN LET r == Utf8Decode(Tail(Tail(bs))) IN
              IF r.ok THEN [ok |-> TRUE, cps |-> << (b - 192) * 64 + (bs[2] - 128) >> \o r.cps]
              ELSE DecodeFail
         ELSE DecodeFail

\* Latin-1 maps every byte to the code point of the same number.
Latin1Decode(bs) == [ok |-> TRUE, cps |-> bs]

\* CP1252, bytes 0x80..0x9F (0 marks the five undefined bytes).
Cp1252High ==
    << 8364, 0, 8218, 402, 8222, 8230, 8224, 8225, 710, 8240, 352, 8249, 338, 0, 381, 0,
       0, 8216, 8217, 8220, 8221, 8226, 8211, 8212, 732, 8482, 353, 8250, 339, 0, 382, 376 >>

Cp1252Char(b) == IF b \in 128..159 THEN Cp1252High[b - 127] ELSE b

Cp1252Decode(bs) ==
    IF \E i \in 1..Len(bs) : Cp1252Char(bs[i]) = 0
    THEN DecodeFail
    ELSE [ok |-> TRUE, cps |-> [i \in 1..Len(bs) |-> Cp1252Char(bs[i])]]

DecodeUnit(encoding, bs) ==
    CASE encoding = "utf-8"   -> Utf8Decode(bs)
      [] encoding = "latin-1" -> Latin1Decode(bs)
      [] encoding = "cp1252"  -> Cp1252Decode(bs)

\* open(file_path, 'r', encoding=encoding).read() on the bytes of a file.
Decode(encoding, bytes) ==
    IF bytes.reps = 0 THEN [ok |-> TRUE, text |-> EmptyText]
    ELSE LET d == DecodeUnit(encoding, bytes.unit) IN
         IF d.ok THEN [ok |-> TRUE, text |-> MkText(d.cps, Len(d.cps) * bytes.reps)]
         ELSE [ok |-> FALSE, text |-> EmptyText]

(***************************************************************************)
(* File names                                                              *)
(***************************************************************************)
\* Path.suffix of the file names of the model: the last dot-extension of
\* the name, empty for a name without a dot or with a leading dot only.
Suffix(name) ==
    CASE name = "a.py"              -> ".py"
      [] name = "b.PY"              -> ".PY"
      [] name = "x.js"              -> ".js"
      [] name = "package-lock.json" -> ".json"
      [] name = "data.json"         -> ".json"
      [] name = ".gitignore"        -> ""
      [] name = ".env.local"        -> ".local"
      [] name = "img.png"           -> ".png"
      [] name = "README.md"         -> ".md"
      [] name = "NOTES.Md"          -> ".Md"
      [] name = "blank.md"          -> ".md"
      [] name = "empty.txt"         -> ".txt"
      [] name = "nbsp.txt"          -> ".txt"
      [] name = "latin.txt"         -> ".txt"
      [] name = "noread.py"         -> ".py"
      [] name = "nostat.py"         -> ".py"
      [] name = "Dockerfile"        -> ""
      [] OTHER                      -> ""

\* str.lower() on the suffixes of the model.
Lower(s) ==
    CASE s = ".PY" -> ".py"
      [] s = ".Md" -> ".md"
      [] OTHER     -> s

(***************************************************************************)
(* CodebaseIngestion.should_process_file                                   *)
(*   path = [parents, name, stat, size]: the names of file_path.parents    *)
(*   (outermost first), file_path.name, whether file_path.stat() succeeds  *)
(*   and the st_size it reports                                            *)
(***************************************************************************)
\* for parent in file_path.parents: if parent.name in IGNORE_DIRS: return False
RECURSIVE InIgnoredDir(_)
InIgnoredDir(parents) ==
    IF parents = << >> THEN FALSE
    ELSE IF Head(parents) \in IGNORE_DIRS THEN TRUE
    ELSE InIgnoredDir(Tail(parents))

\* if file_path.stat().st_size > 1_000_000: return False; except: return False
SizeRejected_AtLimit(path) == path.stat # "ok" \/ path.size >= MAX_FILE_SIZE

SizeRejected(path) == path.stat # "ok" \/ path.size > MAX_FILE_SIZE

ExtensionRejected_CaseSensitive(path) == Suffix(path.name) \notin CODE_EXTENSIONS

ExtensionRejected(path) == Lower(Suffix(path.name)) \notin CODE_EXTENSIONS

should_process_file(path) ==
    IF ExtensionRejected(path) THEN FALSE
    ELSE IF path.name \in IGNORE_FILES THEN FALSE
    ELSE IF InIgnoredDir(path.parents) THEN FALSE
    ELSE IF SizeRejected(path) THEN FALSE
    ELSE TRUE

(***************************************************************************)
(* CodebaseIngestion.read_file_content                                     *)
(*   file = [open, bytes]: whether open() succeeds and the bytes read      *)
(*   result = [raised, text, tried]: tried lists the encodings attempted   *)
(***************************************************************************)
RECURSIVE ReadLoop(_, _, _)
ReadLoop(file, encs, tried) ==
    IF encs = << >>
    THEN [raised |-> FALSE, text |-> EmptyText, tried |-> tried]      \* return ""
    ELSE IF file.open # "ok"
    THEN [raised |-> TRUE, text |-> EmptyText, tried |-> Append(tried, Head(encs))]
    ELSE LET d == Decode(Head(encs), file.bytes) IN
         IF d.ok
         THEN [raised |-> FALSE, text |-> d.text, tried |-> Append(tried, Head(encs))]
         ELSE ReadLoop(file, Tail(encs), Append(tried, Head(encs)))   \* continue

read_file_content(file) == ReadLoop(file, encodings, << >>)

(***************************************************************************)
(* RecursiveCharacterTextSplitter(chunk_size, chunk_overlap).split_text    *)
(*   The text is split at the first separator of the list that occurs in   *)
(*   it, the separators are kept, and the pieces are merged again as long  *)
(*   as they fit in chunk_size; every chunk is stripped and is dropped     *)
(*   when nothing is left of it.  A text of at most chunk_size characters  *)
(*   is therefore merged back whole.  On a text without any separator the  *)
(*   splitter falls through to the separator "", splits into characters    *)
(*   and merges them: a chunk is emitted when chunk_size characters are    *)
(*   collected, the oldest are then dropped until chunk_overlap remain.    *)
(***************************************************************************)
ChunkStride == chunk_size - chunk_overlap

NumChunks_NoOverlap(len) == (len + chunk_size - 1) \div chunk_size

NumChunks(len) ==
    IF len = 0 THEN 0
    ELSE IF len <= chunk_size THEN 1
    ELSE 2 + ((len - chunk_size - 1) \div ChunkStride)

split_text_Unstripped(text) ==
    IF text.len = 0 THEN << >>
    ELSE [k \in 1..NumChunks(text.len) |->
            LET rest == text.len - (k - 1) * ChunkStride IN
            Slice(text, (k - 1) * ChunkStride, IF rest < chunk_size THEN rest ELSE chunk_size)]

split_text(text) ==
    IF Strip(text) = EmptyText THEN << >>
    ELSE IF text.len <= chunk_size THEN << Strip(text) >>
    ELSE [k \in 1..NumChunks(text.len) |->
            LET rest == text.len - (k - 1) * ChunkStride IN
            Slice(text, (k - 1) * ChunkStride, IF rest < chunk_size THEN rest ELSE chunk_size)]

(***************************************************************************)
(* create_collection_name                                                  *)
(*   a project name is a sequence of code points; a collection name is     *)
(*   kept as the parts of the f-string: "user", user_id, safe_name and     *)
(*   the hash suffix                                                       *)
(***************************************************************************)
AsciiAlnum == (48..57) \cup (65..90) \cup (97..122)

\* str.isalnum() of one character: the ASCII letters and digits, and the
\* letters and numerals beyond ASCII: those of Latin-1 and the CJK ideographs.
isalnum(c) ==
    \/ c \in AsciiAlnum
    \/ c \in { 170, 178, 179, 181, 185, 186, 188, 189, 190 }
    \/ (c \in 192..255 /\ c \notin { 215, 247 })
    \/ c \in 19968..40959

\* str.lower() of one character of those ranges.
LowerChar(c) ==
    IF c \in 65..90 \/ (c \in 192..222 /\ c # 215) THEN c + 32 ELSE c

\* project_name.lower().replace(" ", "_")[:30], then the characters c with
\* c.isalnum() or c in "_-" are kept.
SafeName(project_name) ==
    LET lowered == [ i \in 1..Len(project_name) |-> LowerChar(project_name[i]) ]
        replaced == [ i \in 1..Len(lowered) |-> IF lowered[i] = 32 THEN 95 ELSE lowered[i] ]
        cut == SubSeq(replaced, 1, IF Len(replaced) < 30 THEN Len(replaced) ELSE 30)
        Kept(c) == isalnum(c) \/ c \in { 95, 45 }
    IN SelectSeq(cut, Kept)

\* hashlib.md5(f"{user_id}_{project_name}_{int(time.time())}").hexdigest()[:8]:
\* a function of the three values, taken to differ where they differ.
HashSuffix(user_id, project_name, time) == << user_id, project_name, time >>

\* f"user{user_id}_{safe_name}_{hash_suffix}"
create_collection_name(user_id, project_name, time) ==
    << "user", user_id, SafeName(project_name), HashSuffix(user_id, project_name, time) >>

\* str(n) of an integer that is not negative.
RECURSIVE Str(_)
Str(n) == IF n < 10 THEN << 48 + n >> ELSE Append(Str(n \div 10), 48 + (n % 10))

\* The first eight characters of a hexdigest: digits of 0-9a-f that the hashed
\* values determine (MD5 itself is not computed).
HexDigest8(hash) ==
    LET seed == (hash[1] % 16) + (Len(hash[2]) % 16) + (hash[3] % 16)
        HexChar(d) == IF d < 10 THEN 48 + d ELSE 87 + d
    IN [ i \in 1..8 |-> HexChar((seed * i + i) % 16) ]

\* The characters of a collection name.
NameText(name) ==
    << 117, 115, 101, 114 >> \o Str(name[2]) \o << 95 >> \o name[3] \o << 95 >>
        \o HexDigest8(name[4])

(***************************************************************************)
(* The generation API key: llm.generate_reply and the constructor of       *)
(* CodebaseArchitectAgent                                                  *)
(*   env is the text of GEMINI_API_KEY in the environment, EmptyText when  *)
(*   the variable is not set                                               *)
(***************************************************************************)
\* os.getenv("GEMINI_API_KEY", "").strip()
GEMINI_API_KEY(env) == Strip(env)

MISSING_KEY_REPLY == "I am ready to chat, but the server is missing the Gemini API key."

EMPTY_REPLY == "I'm sorry, I couldn't generate a response just now. Please try again."

\* What model.generate_content_async hands back: (response.text or "").strip()
\* or an error.
LlmOutcomes ==
    { [raised |-> FALSE, text |-> "an answer"], [raised |-> FALSE, text |-> ""],
      [raised |-> TRUE, text |-> "quota exceeded"] }

\* The result of a call: whether it raised, the exception, the text returned
\* and the calls made on the model or the index.
CallResult(raised, exc, text, calls) ==
    [raised |-> raised, exc |-> exc, text |-> text, calls |-> calls]

\* generate_reply(messages) where the model answers with `outcome`.
generate_reply(env, outcome) ==
    IF GEMINI_API_KEY(env) = EmptyText
    THEN CallResult(FALSE, [type |-> "none", msg |-> << >>], MISSING_KEY_REPLY, << >>)
    ELSE IF outcome.raised
    THEN CallResult(TRUE, [type |-> "HTTPException",
                           msg |-> << "LLM provider error: ", outcome.text >>],
                    "", << "generate_content_async" >>)
    ELSE CallResult(FALSE, [type |-> "none", msg |-> << >>],
                    IF outcome.text = "" THEN EMPTY_REPLY ELSE outcome.text,
                    << "generate_content_async" >>)

\* The constructor without the check of the key: the agent is built.
AgentInit_KeyUnchecked(env) ==
    CallResult(FALSE, [type |-> "none", msg |-> << >>], "agent", << >>)

\* CodebaseArchitectAgent.__init__(vector_store)
AgentInit(env) ==
    IF GEMINI_API_KEY(env) = EmptyText
    THEN CallResult(TRUE, [type |-> "ValueError",
                           msg |-> << "GEMINI_API_KEY not found in environment variables" >>],
                    "", << >>)
    ELSE CallResult(FALSE, [type |-> "none", msg |-> << >>], "agent", << >>)

(***************************************************************************)
(* The collections of the Chroma client and the rows of codebase_projects  *)
(***************************************************************************)
\* VectorStore.__init__: get_or_create_collection(name)
GetOrCreate(colls, name) ==
    IF name \in DOMAIN colls THEN colls
    ELSE [ n \in DOMAIN colls \cup { name } |-> IF n = name THEN {} ELSE colls[n] ]

\* collection.add(ids=...) for the ids chunk_0 .. chunk_{n-1}
AddDocuments(colls, name, n) == [ colls EXCEPT ![name] = colls[name] \cup (0..(n - 1)) ]

\* _chroma_client.delete_collection(name)
DeleteCollection(colls, name) == [ n \in DOMAIN colls \ { name } |-> colls[n] ]

Range(f) == { f[i] : i \in DOMAIN f }

\* The row with file_count taken to be the number of chunks.
NewProject_ChunksAsFiles(kind, user, name, collection_name, paths) ==
    [id |-> 0, user_id |-> user, name |-> name, source_type |-> kind,
     vector_store_id |-> collection_name,
     file_count |-> Len(paths), total_chunks |-> Len(paths)]

\* CodebaseProject(...) as upload_codebase and clone_github_repo build it.
NewProject(kind, user, name, collection_name, paths) ==
    [id |-> 0, user_id |-> user, name |-> name, source_type |-> kind,
     vector_store_id |-> collection_name,
     file_count |-> Cardinality(Range(paths)), total_chunks |-> Len(paths)]

(***************************************************************************)
(* State                                                                   *)
(***************************************************************************)
\* A call of one of the file-level functions: its name, argument, result.
VARIABLES fl_op, fl_arg, fl_res

\* One run of CodebaseIngestion.ingest_from_zip / ingest_from_github and of
\* process_codebase(root_path) inside it.
VARIABLES
    ing_source,      \* the archive or repository: what unpacking or cloning it yields
    ing_tempdir,     \* whether the TemporaryDirectory of the run exists
    ing_exc,         \* the exception that left the ingestion, NoExc when none did
    ing_root,        \* names of the directories of root_path, outermost first
    ing_tree,        \* what root_path.rglob('*') yields, in its order
    ing_pos,         \* index in ing_tree of the entry the loop visits next
    ing_pc,          \* "start", "entered", "walking", "returned" or "raised"
    all_chunks, all_metadatas, all_ids, file_count, chunk_id

\* The upload_codebase or clone_github_repo request around one ingestion.
VARIABLES
    handler          \* its position, its temporary file, its answer and its effects

\* One call of CodebaseArchitectAgent.analyze(question, chat_history).
VARIABLES
    an_hits,         \* what VectorStore.search returned to retrieve_context
    an_pc,           \* "idle", "primary", "fallback", "returned" or "raised"
    an_question, an_history,
    an_context, an_files,     \* what retrieve_context returned
    an_prompt,       \* the prompt built from them
    an_calls,        \* the invocations of the generation capability, in order
    an_primary,      \* "none", "ok" or "failed": how the primary path ended
    an_fallback,     \* how the fallback path ended, with the error it raised
    an_result        \* what analyze returned, or the error that left it

\* The service: the codebase_projects table, the collections of the Chroma
\* client, and the requests of routers/codebase.py that are under way.
VARIABLES
    db_projects,     \* the committed rows of codebase_projects
    db_next_id,      \* the next autoincrement id
    collections,     \* collection name -> the ids of its records
    clock,           \* int(time.time())
    received,        \* the number of requests received so far
    reqs,            \* the requests under way, each with its position and locals
    last             \* the answer to the request that finished last

\* VectorStore objects over the collections of the Chroma client.
VARIABLES
    vs_handles,      \* the collection names of the VectorStore objects made
    vs_last          \* the last call on one of them and how it ended

\* Runs of process_codebase on the one CodebaseIngestion object that are
\* under way at the same time.
VARIABLES
    runs             \* run number -> the root, the tree, the position and the locals

\* The conversations and chat messages tables, as /chat and /codebase/analyze
\* write them.
VARIABLES
    chat             \* the rows of both tables and the answer to the last request

varsFile == << fl_op, fl_arg, fl_res >>

varsIngest == << ing_source, ing_tempdir, ing_exc, ing_root, ing_tree, ing_pos, ing_pc,
                 all_chunks, all_metadatas, all_ids, file_count, chunk_id >>

varsRequest == << handler >>

varsAnalyze == << an_hits, an_pc, an_question, an_history, an_context, an_files, an_prompt,
                  an_calls, an_primary, an_fallback, an_result >>

varsService == << db_projects, db_next_id, collections, clock, received, reqs, last >>

varsStore == << vs_handles, vs_last >>

varsRuns == << runs >>

varsChat == << chat >>

vars == << varsFile, varsIngest, varsRequest, varsAnalyze, varsService, varsStore,
           varsRuns, varsChat >>

othersFile == << varsIngest, varsRequest, varsAnalyze, varsService, varsStore, varsRuns, varsChat >>

othersIngest == << varsFile, varsRequest, varsAnalyze, varsService, varsStore, varsRuns, varsChat >>

othersRequest == << varsFile, varsAnalyze, db_next_id, clock, received, reqs, last, varsStore,
                    varsRuns, varsChat >>

othersAnalyze == << varsFile, varsIngest, varsRequest, varsService, varsStore, varsRuns, varsChat >>

othersService == << varsFile, varsIngest, varsRequest, varsAnalyze, varsStore, varsRuns, varsChat >>

othersStore == << varsFile, varsIngest, varsRequest, varsAnalyze,
                  db_projects, db_next_id, clock, received, reqs, last, varsRuns, varsChat >>

othersRuns == << varsFile, varsIngest, varsRequest, varsAnalyze, varsService, varsStore, varsChat >>

othersChat == << varsFile, varsIngest, varsRequest, varsAnalyze, varsService, varsStore, varsRuns >>

\* The tables of the chat and the requests in flight: conversations are rows
\* [id, user_id], next_id is the AUTO_INCREMENT counter of the table,
\* messages are rows [conversation_id, role, by, rid] in the order of their
\* insertion, `by` and `rid` being the user and the request that stored the
\* row; pending are the handlers waiting for the model's reply; answer is
\* the response sent last.
ChatTables(conversations, next_id, messages, pending, count, answer) ==
    [conversations |-> conversations, next_id |-> next_id, messages |-> messages,
     pending |-> pending, received |-> count, answer |-> answer]

NoAnswer == [rid |-> 0, status |-> 0, conversation_id |-> 0]

NoChat == ChatTables({}, 1, << >>, {}, 0, NoAnswer)

(***************************************************************************)
(* File-level calls: arguments drawn from small sets                       *)
(***************************************************************************)
ParentSamples ==
    { << "tmp", "tmpk3x9" >>,
      << "tmp", "tmpk3x9", "src" >>,
      << "tmp", "tmpk3x9", "node_modules", "lib" >>,
      << "tmp", "tmpk3x9", "build" >>,
      << "tmp", "tmpk3x9", "Build" >> }

NameSamples ==
    { "a.py", "b.PY", "NOTES.Md", "data.json", "package-lock.json",
      ".gitignore", ".env.local", "img.png", "Dockerfile" }

SizeSamples == { 0, 1, MAX_FILE_SIZE - 1, MAX_FILE_SIZE, MAX_FILE_SIZE + 1 }

PathSamples ==
    [ parents : ParentSamples, name : NameSamples, stat : {"ok", "fail"}, size : SizeSamples ]

\* 'a', ' ', UTF-8 e-acute, Latin-1 e-acute, Latin-1 no-break space, 0x81
ByteUnits == { << 97 >>, << 32 >>, << 195, 169 >>, << 233 >>, << 160 >>, << 129 >> }

RepsSamples == { 0, 1, 2, chunk_size, chunk_size + 1 }

FileSamples ==
    [ open : {"ok", "fail"}, bytes : [ unit : ByteUnits, reps : RepsSamples ] ]

CallShouldProcessFile ==
    \E path \in PathSamples :
        /\ fl_op' = "should_process_file"
        /\ fl_arg' = path
        /\ fl_res' = should_process_file(path)
        /\ UNCHANGED othersFile

CallReadFileContent ==
    \E file \in FileSamples :
        /\ fl_op' = "read_file_content"
        /\ fl_arg' = file
        /\ fl_res' = read_file_content(file)
        /\ UNCHANGED othersFile

\* "a", "a\n", " a", "\ta b\n", " ", "\n": units of short texts; "ab": the
\* unit of the long ones.
ShortUnits == { << 97 >>, << 97, 10 >>, << 32, 97 >>, << 9, 97, 32, 98, 10 >>, << 32 >>, << 10 >> }

TextSamples ==
    { MkText(u, n) : u \in ShortUnits, n \in { 0, 1, 2, 5, 40, chunk_size - 1, chunk_size } }
        \cup { MkText(<< 97, 98 >>, n) :
                   n \in { chunk_size - 1, chunk_size, chunk_size + 1, 2 * chunk_size,
                           chunk_size + ChunkStride, chunk_size + ChunkStride + 1 } }

CallSplitText ==
    \E text \in TextSamples :
        /\ fl_op' = "split_text"
        /\ fl_arg' = text
        /\ fl_res' = split_text(text)
        /\ UNCHANGED othersFile

\* "", "My App", "my-app_2", forty times "a", "Café É", "a.b/c!" and two
\* ideographs.
ProjectNameSamples ==
    { << >>,
      << 77, 121, 32, 65, 112, 112 >>,
      << 109, 121, 45, 97, 112, 112, 95, 50 >>,
      [ i \in 1..40 |-> 97 ],
      << 67, 97, 102, 233, 32, 201 >>,
      << 97, 46, 98, 47, 99, 33 >>,
      << 20013, 25991 >> }

UserIdSamples == { 1, 42, 2147483647 }

TimeSamples == { 0, 1 }

CallCreateCollectionName ==
    \E user_id \in UserIdSamples, project_name \in ProjectNameSamples, time \in TimeSamples :
        /\ fl_op' = "create_collection_name"
        /\ fl_arg' = [user_id |-> user_id, project_name |-> project_name, time |-> time]
        /\ fl_res' = NameText(create_collection_name(user_id, project_name, time))
        /\ UNCHANGED othersFile

\* Not set, "", blanks only, and a key.
KeySamples == { EmptyText, MkText(<< 32 >>, 2), MkText(<< 65, 73, 122, 97 >>, 8) }

CallGenerateReply ==
    \E env \in KeySamples, outcome \in LlmOutcomes :
        /\ fl_op' = "generate_reply"
        /\ fl_arg' = [env |-> env, outcome |-> outcome]
        /\ fl_res' = generate_reply(env, outcome)
        /\ UNCHANGED othersFile

\* create_rag_agent(vector_store)
CallCreateRagAgent ==
    \E env \in KeySamples :
        /\ fl_op' = "create_rag_agent"
        /\ fl_arg' = [env |-> env]
        /\ fl_res' = AgentInit(env)
        /\ UNCHANGED othersFile

NextFile ==
    \/ CallGenerateReply
    \/ CallCreateRagAgent
    \/ CallShouldProcessFile
    \/ CallReadFileContent
    \/ CallSplitText
    \/ CallCreateCollectionName

(***************************************************************************)
(* CodebaseIngestion.process_codebase                                      *)
(*   an entry of the tree = [kind, dirs, name, stat, open, bytes]:         *)
(*   dirs are the directories between root_path and the entry              *)
(***************************************************************************)
Bytes(unit, reps) == [unit |-> unit, reps |-> reps]

Entry(kind, dirs, name, stat, open, bytes) ==
    [kind |-> kind, dirs |-> dirs, name |-> name, stat |-> stat, open |-> open, bytes |-> bytes]

\* The entries a tree of the model is made of, each at a path of its own.
EntryUniverse ==
    { Entry("dir",  << >>, "src", "ok", "fail", Bytes(<< >>, 0)),
      Entry("file", << >>, "a.py", "ok", "ok", Bytes(<< 97 >>, 40)),
      Entry("file", << >>, "a.py", "ok", "ok", Bytes(<< 97, 98, 99 >>, 2 * (chunk_size \div 3))),
      Entry("file", << "src" >>, "b.PY", "ok", "ok", Bytes(<< 98 >>, chunk_size + 100)),
      Entry("file", << >>, "README.md", "ok", "ok", Bytes(<< 195, 169 >>, 2 * chunk_size)),
      Entry("file", << >>, "latin.txt", "ok", "ok", Bytes(<< 233 >>, 2)),
      Entry("file", << "node_modules" >>, "x.js", "ok", "ok", Bytes(<< 120 >>, 10)),
      Entry("file", << >>, "package-lock.json", "ok", "ok", Bytes(<< 123 >>, 10)),
      Entry("file", << >>, "img.png", "ok", "ok", Bytes(<< 129 >>, 10)),
      Entry("file", << >>, "blank.md", "ok", "ok", Bytes(<< 32 >>, 5)),
      Entry("file", << >>, "empty.txt", "ok", "ok", Bytes(<< 97 >>, 0)),
      Entry("file", << "src" >>, "nbsp.txt", "ok", "ok", Bytes(<< 160 >>, 3)),
      Entry("file", << >>, "nostat.py", "fail", "ok", Bytes(<< 99 >>, 10)),
      Entry("file", << >>, "noread.py", "ok", "fail", Bytes(<< 100 >>, 10)) }

\* Sequences without repetition of at most n entries.
RECURSIVE Trees(_)
Trees(n) ==
    IF n = 0 THEN { << >> }
    ELSE LET shorter == Trees(n - 1) IN
         shorter \cup { Append(t, e) : t \in { u \in shorter : Len(u) = n - 1 },
                                       e \in EntryUniverse }

\* file_path.relative_to(root_path)
RelPath(e) == Append(e.dirs, e.name)

\* No two entries of a tree are at the same path.
NoRepeat(t) == \A i, j \in 1..Len(t) : i # j => RelPath(t[i]) # RelPath(t[j])

\* tempfile.TemporaryDirectory()
TempDir == << "tmp", "tmpk3x9" >>

\* An archive or a repository: whether unpacking or cloning it succeeds and
\* the entries it then yields, each at its path below the directory it is
\* unpacked or cloned to.
Source(kind, ok, members) == [kind |-> kind, ok |-> ok, members |-> members]

NoSource == Source("none", TRUE, << >>)

\* The members of an archive that holds the tree t in one top-level folder.
WrappedIn(folder, t) ==
    << Entry("dir", << >>, folder, "ok", "fail", Bytes(<< >>, 0)) >>
        \o [ i \in 1..Len(t) |-> [ t[i] EXCEPT !.dirs = << folder >> \o @ ] ]

Wrapped(t) == WrappedIn("myrepo", t)

Sources(n) ==
    LET trees == { t \in Trees(n) : NoRepeat(t) } IN
    { Source("zip", TRUE, t) : t \in trees }
        \cup { Source("zip", TRUE, Wrapped(t)) : t \in trees }
        \cup { Source("zip", TRUE, WrappedIn("build", t)) : t \in { u \in trees : Len(u) <= 1 } }
        \cup { Source("github", TRUE, t) : t \in trees }

\* extract_to.iterdir(): the names directly below the extraction directory,
\* each with is_dir().
TopLevel(members) ==
    { [name |-> IF members[i].dirs = << >> THEN members[i].name ELSE members[i].dirs[1],
       is_dir |-> members[i].dirs # << >> \/ members[i].kind = "dir"] :
          i \in 1..Len(members) }

extract_zip_NeverUnwraps(members, extract_to) == extract_to

\* if len(items) == 1 and items[0].is_dir(): return items[0]
\* return extract_to
extract_zip(members, extract_to) ==
    LET items == TopLevel(members) IN
    IF Cardinality(items) = 1 /\ (\A item \in items : item.is_dir)
    THEN Append(extract_to, (CHOOSE item \in items : TRUE).name)
    ELSE extract_to

\* temp_path = Path(temp_dir) / "repo"; clone_github_repo returns clone_to
CloneTo == Append(TempDir, "repo")

\* The directory the source is unpacked or cloned to.
TargetOf(source) == IF source.kind = "github" THEN CloneTo ELSE TempDir

\* root_path as ingest_from_zip / ingest_from_github hand it on.
RootPath(source) ==
    IF source.kind = "github" THEN CloneTo ELSE extract_zip(source.members, TempDir)

\* root_path.rglob('*'): the entries below root, each with the directories
\* between root and itself.
Rglob(source, root) ==
    LET rel == SubSeq(root, Len(TargetOf(source)) + 1, Len(root))
        Below(e) == Len(e.dirs) >= Len(rel) /\ SubSeq(e.dirs, 1, Len(rel)) = rel
        below == SelectSeq(source.members, Below) IN
    [ i \in 1..Len(below) |->
        [ below[i] EXCEPT !.dirs = SubSeq(@, Len(rel) + 1, Len(@)) ] ]

\* An exception: its class and the parts of its message.
Exc(type, msg) == [type |-> type, msg |-> msg]

NoExc == Exc("none", << >>)

\* with tempfile.TemporaryDirectory() as temp_dir: whether the directory is
\* there once the block is left, by return or by the exception exc.
TempDirAfterExit_KeptOnError(exc) == exc # NoExc

TempDirAfterExit(exc) == FALSE

\* The Path the loop hands to should_process_file, with the file system's
\* answer to stat().
PathOf(root, e) ==
    [ parents |-> root \o e.dirs, name |-> e.name, stat |-> e.stat,
      size |-> Len(e.bytes.unit) * e.bytes.reps ]

ChunkMetadata_NameOnly(e, i, n) ==
    [ file_path |-> << e.name >>, file_name |-> e.name, file_extension |-> Suffix(e.name),
      chunk_index |-> i, total_chunks |-> n ]

ChunkMetadata_OneBased(e, i, n) ==
    [ file_path |-> RelPath(e), file_name |-> e.name, file_extension |-> Suffix(e.name),
      chunk_index |-> i + 1, total_chunks |-> n ]

\* The metadata of chunk i (0-based) of the n chunks of entry e.
ChunkMetadata(e, i, n) ==
    [ file_path |-> RelPath(e), file_name |-> e.name, file_extension |-> Suffix(e.name),
      chunk_index |-> i, total_chunks |-> n ]

ChunkIds_PerFile(first, n) == [ k \in 1..n |-> << "chunk_", k - 1 >> ]

\* f"chunk_{chunk_id}" for the n chunks of one file, chunk_id counting on
\* from `first`.
ChunkIds(first, n) == [ k \in 1..n |-> << "chunk_", first + k - 1 >> ]

IngestInputs == << ing_source, ing_root, ing_tree >>

Visiting == ing_pc = "walking" /\ ing_pos <= Len(ing_tree)

Current == ing_tree[ing_pos]

Accumulators == << all_chunks, all_metadatas, all_ids, file_count, chunk_id >>

\* if not file_path.is_file(): continue
WalkSkipNonFile ==
    /\ Visiting
    /\ Current.kind # "file"
    /\ ing_pos' = ing_pos + 1
    /\ UNCHANGED << IngestInputs, ing_tempdir, ing_exc, ing_pc, Accumulators, othersIngest >>

\* if not self.should_process_file(file_path): continue
WalkSkipFiltered ==
    /\ Visiting
    /\ Current.kind = "file"
    /\ ~ should_process_file(PathOf(ing_root, Current))
    /\ ing_pos' = ing_pos + 1
    /\ UNCHANGED << IngestInputs, ing_tempdir, ing_exc, ing_pc, Accumulators, othersIngest >>

\* open() raises an OSError, which read_file_content does not catch: it
\* leaves process_codebase and the with block around it.
WalkReadRaises ==
    /\ Visiting
    /\ Current.kind = "file"
    /\ should_process_file(PathOf(ing_root, Current))
    /\ read_file_content(Current).raised
    /\ ing_pc' = "raised"
    /\ ing_exc' = Exc("OSError", << "Permission denied" >>)
    /\ ing_tempdir' = TempDirAfterExit(ing_exc')
    /\ UNCHANGED << IngestInputs, ing_pos, Accumulators, othersIngest >>

\* if not content.strip(): continue
WalkSkipEmpty ==
    /\ Visiting
    /\ Current.kind = "file"
    /\ should_process_file(PathOf(ing_root, Current))
    /\ LET r == read_file_content(Current) IN
           ~ r.raised /\ Strip(r.text) = EmptyText
    /\ ing_pos' = ing_pos + 1
    /\ UNCHANGED << IngestInputs, ing_tempdir, ing_exc, ing_pc, Accumulators, othersIngest >>

\* The file is split and one record per chunk is appended.
WalkIngestFile ==
    /\ Visiting
    /\ Current.kind = "file"
    /\ should_process_file(PathOf(ing_root, Current))
    /\ LET r == read_file_content(Current) IN
       /\ ~ r.raised
       /\ Strip(r.text) # EmptyText
       /\ LET chunks == split_text(r.text)
              n      == Len(chunks) IN
          /\ file_count' = file_count + 1
          /\ all_chunks' = all_chunks \o chunks
          /\ all_metadatas' = all_metadatas \o [ k \in 1..n |-> ChunkMetadata(Current, k - 1, n) ]
          /\ all_ids' = all_ids \o ChunkIds(chunk_id, n)
          /\ chunk_id' = chunk_id + n
    /\ ing_pos' = ing_pos + 1
    /\ UNCHANGED << IngestInputs, ing_tempdir, ing_exc, ing_pc, othersIngest >>

\* return all_chunks, all_metadatas, all_ids; the with block of
\* ingest_from_zip / ingest_from_github is left.
WalkReturn ==
    /\ ing_pc = "walking"
    /\ ing_pos > Len(ing_tree)
    /\ ing_pc' = "returned"
    /\ ing_tempdir' = TempDirAfterExit(NoExc)
    /\ UNCHANGED << IngestInputs, ing_exc, ing_pos, Accumulators, othersIngest >>

NextIngest ==
    \/ WalkSkipNonFile
    \/ WalkSkipFiltered
    \/ WalkReadRaises
    \/ WalkSkipEmpty
    \/ WalkIngestFile
    \/ WalkReturn

(***************************************************************************)
(* upload_codebase and clone_github_repo around one ingestion              *)
(***************************************************************************)
Handler(pc, temp_file, status, detail, collection, project) ==
    [pc |-> pc, temp_file |-> temp_file, status |-> status, detail |-> detail,
     collection |-> collection, project |-> project]

\* A request that has not been received.
NoHandler == Handler("none", FALSE, 0, << >>, FALSE, FALSE)

MaxRequestFiles == 2

\* The archives and repositories of the requests: those of the ingestion
\* runs, an archive that cannot be unpacked, a repository that cannot be
\* cloned.
RequestSources ==
    Sources(MaxRequestFiles)
        \cup { Source("zip", FALSE, << >>), Source("github", FALSE, << >>) }

\* What git.Repo.clone_from raises.
GitErrors ==
    { Exc("GitCommandError", << "repository not found" >>),
      Exc("GitCommandError", << "could not resolve host" >>) }

CloneError_Unwrapped(e) == e

\* except Exception as e: raise ValueError(f"Failed to clone repository: {str(e)}")
CloneError(e) == Exc("ValueError", << "Failed to clone repository: " >> \o e.msg)

\* What zipfile.ZipFile / extractall raise.
ZipErrors == { Exc("BadZipFile", << "File is not a zip file" >>) }

\* What VectorStore.add_documents raises.
IndexErrors == { Exc("RuntimeError", << "embedding failed" >>) }

NO_FILES_IN_ZIP == "No processable code files found in the ZIP"

NO_FILES_IN_REPOSITORY == "No processable code files found in the repository"

EmptyResult_Never(chunks) == FALSE

\* if not chunks:
EmptyResult(chunks) == chunks = << >>

\* The answer to an exception that leaves the try block of the endpoint:
\* clone_github_repo turns a ValueError into a 400 carrying its message,
\* every other exception becomes the 500 of the framework.
AnswerTo(kind, exc) ==
    IF kind = "github" /\ exc.type = "ValueError"
    THEN [status |-> 400, detail |-> exc.msg]
    ELSE [status |-> 500, detail |-> << "Internal Server Error" >>]

\* The request is answered; finally: temp_path.unlink(missing_ok=True)
Answered(status, detail, collection, project) ==
    Handler("finished", FALSE, status, detail, collection, project)

\* upload_codebase: NamedTemporaryFile(delete=False), await file.read(),
\* temp_file.write(content)
UploadSaves ==
    /\ handler.pc = "received"
    /\ ing_source.kind = "zip"
    /\ handler' = [handler EXCEPT !.pc = "saved", !.temp_file = TRUE]
    /\ UNCHANGED << varsIngest, db_projects, collections, othersRequest >>

\* upload_codebase: file.read() or temp_file.write() raises inside the with
\* block, after the file was made and before the try block is entered.
UploadSaveFails ==
    /\ handler.pc = "received"
    /\ ing_source.kind = "zip"
    /\ handler' = Handler("finished", TRUE, 500, << "Internal Server Error" >>, FALSE, FALSE)
    /\ UNCHANGED << varsIngest, db_projects, collections, othersRequest >>

\* ingest_from_zip / ingest_from_github: with tempfile.TemporaryDirectory()
IngestEnters ==
    /\ ing_pc = "start"
    /\ \/ ing_source.kind = "zip" /\ handler.pc = "saved"
       \/ ing_source.kind = "github" /\ handler.pc = "received"
    /\ handler' = [handler EXCEPT !.pc = "ingesting"]
    /\ ing_pc' = "entered"
    /\ ing_tempdir' = TRUE
    /\ UNCHANGED << ing_source, ing_root, ing_tree, ing_exc, ing_pos, Accumulators,
                    db_projects, collections, othersRequest >>

\* extract_zip or clone_github_repo returns root_path.
SourceFetched ==
    /\ ing_pc = "entered"
    /\ ing_source.ok
    /\ ing_root' = RootPath(ing_source)
    /\ ing_tree' = Rglob(ing_source, RootPath(ing_source))
    /\ ing_pc' = "walking"
    /\ UNCHANGED << ing_source, ing_tempdir, ing_exc, ing_pos, Accumulators,
                    handler, db_projects, collections, othersRequest >>

\* extract_zip raises: the error leaves ingest_from_zip.
ExtractFails ==
    /\ ing_pc = "entered"
    /\ ing_source.kind = "zip" /\ ~ ing_source.ok
    /\ \E e \in ZipErrors : ing_exc' = e
    /\ ing_tempdir' = TempDirAfterExit(ing_exc')
    /\ ing_pc' = "raised"
    /\ UNCHANGED << ing_source, ing_root, ing_tree, ing_pos, Accumulators,
                    handler, db_projects, collections, othersRequest >>

\* git.Repo.clone_from raises: clone_github_repo raises its ValueError, which
\* leaves ingest_from_github.
CloneFails ==
    /\ ing_pc = "entered"
    /\ ing_source.kind = "github" /\ ~ ing_source.ok
    /\ \E e \in GitErrors : ing_exc' = CloneError(e)
    /\ ing_tempdir' = TempDirAfterExit(ing_exc')
    /\ ing_pc' = "raised"
    /\ UNCHANGED << ing_source, ing_root, ing_tree, ing_pos, Accumulators,
                    handler, db_projects, collections, othersRequest >>

Ingested == handler.pc = "ingesting" /\ ing_pc = "returned"

\* The ingestion raised: the error leaves the try block.
RespondIngestionError ==
    /\ handler.pc = "ingesting"
    /\ ing_pc = "raised"
    /\ LET answer == AnswerTo(ing_source.kind, ing_exc) IN
          handler' = Answered(answer.status, answer.detail, FALSE, FALSE)
    /\ UNCHANGED << varsIngest, db_projects, collections, othersRequest >>

\* if not chunks: raise HTTPException(status_code=400, ...)
RespondNoChunks ==
    /\ Ingested
    /\ EmptyResult(all_chunks)
    /\ handler' = Answered(400, IF ing_source.kind = "zip" THEN << NO_FILES_IN_ZIP >>
                                 ELSE << NO_FILES_IN_REPOSITORY >>, FALSE, FALSE)
    /\ UNCHANGED << varsIngest, db_projects, collections, othersRequest >>

\* The caller of the request and the name given to the project.
RequestUser == 1

RequestProjectName == << 77, 121, 32, 65, 112, 112 >>

\* collection_name = create_collection_name(current_user.id, name)
RequestCollection == create_collection_name(RequestUser, RequestProjectName, clock)

\* The file_path of every record of the ingestion result, in output order.
IngestedFilePaths == [ i \in 1..Len(all_metadatas) |-> all_metadatas[i].file_path ]

\* VectorStore(collection_name) makes the collection; add_documents raises.
RespondIndexingError ==
    /\ Ingested
    /\ ~ EmptyResult(all_chunks)
    /\ \E e \in IndexErrors :
          LET answer == AnswerTo(ing_source.kind, e) IN
          handler' = Answered(answer.status, answer.detail, TRUE, FALSE)
    /\ collections' = GetOrCreate(collections, RequestCollection)
    /\ UNCHANGED << varsIngest, db_projects, othersRequest >>

\* The collection is made and filled; await db.commit() raises.
RespondCommitError ==
    /\ Ingested
    /\ ~ EmptyResult(all_chunks)
    /\ handler' = Answered(500, << "Internal Server Error" >>, TRUE, FALSE)
    /\ collections' = AddDocuments(GetOrCreate(collections, RequestCollection),
                                   RequestCollection, Len(all_ids))
    /\ UNCHANGED << varsIngest, db_projects, othersRequest >>

\* The collection is made and filled, the row is committed: 200.
RespondSuccess ==
    /\ Ingested
    /\ ~ EmptyResult(all_chunks)
    /\ handler' = Answered(200, << "Successfully processed" >>, TRUE, TRUE)
    /\ collections' = AddDocuments(GetOrCreate(collections, RequestCollection),
                                   RequestCollection, Len(all_ids))
    /\ db_projects' =
          db_projects \cup
            { [ NewProject(IF ing_source.kind = "zip" THEN "upload" ELSE "github",
                           RequestUser, RequestProjectName, RequestCollection,
                           IngestedFilePaths)
                EXCEPT !.id = db_next_id ] }
    /\ UNCHANGED << varsIngest, othersRequest >>

NextRequest ==
    \/ UploadSaves
    \/ UploadSaveFails
    \/ IngestEnters
    \/ SourceFetched
    \/ ExtractFails
    \/ CloneFails
    \/ WalkSkipNonFile
    \/ WalkSkipFiltered
    \/ WalkReadRaises
    \/ WalkSkipEmpty
    \/ WalkIngestFile
    \/ WalkReturn
    \/ RespondIngestionError
    \/ RespondNoChunks
    \/ RespondIndexingError
    \/ RespondCommitError
    \/ RespondSuccess

(***************************************************************************)
(* VectorStore                                                             *)
(*   collections maps the name of a collection of the Chroma client to the *)
(*   ids of its records; a VectorStore object holds the name it was made   *)
(*   with and stays usable as an object after its collection is deleted    *)
(***************************************************************************)
\* A call on a VectorStore object: the method, the collection name of the
\* object, whether the call raised, and the exception it printed (NoExc when
\* it printed nothing).
StoreCall(op, name, raised, logged) ==
    [op |-> op, name |-> name, raised |-> raised, logged |-> logged]

NoCall == StoreCall("none", "none", FALSE, NoExc)

StoreNames == { "user_1_my_app", "user_2_my_app" }

\* What _chroma_client.delete_collection raises for a name it does not hold.
NotFound(name) == Exc("ValueError", << "Collection ", name, " does not exist." >>)

\* What it raises when the delete itself fails.
DeleteErrors == { Exc("OperationalError", << "database is locked" >>) }

\* _chroma_client.delete_collection(name): the collections afterwards and the
\* exception raised.  `failure` is NoExc unless the client fails on this call.
ClientDeleteCollection(colls, name, failure) ==
    IF failure # NoExc THEN [colls |-> colls, exc |-> failure]
    ELSE IF name \notin DOMAIN colls THEN [colls |-> colls, exc |-> NotFound(name)]
    ELSE [colls |-> DeleteCollection(colls, name), exc |-> NoExc]

\* delete_collection without its try/except: the exception reaches the caller.
delete_collection_Unguarded(colls, name, failure) ==
    LET r == ClientDeleteCollection(colls, name, failure) IN
    [colls |-> r.colls, raised |-> r.exc # NoExc, logged |-> NoExc]

\* VectorStore.delete_collection: every exception of the client is printed
\* and swallowed.
delete_collection(colls, name, failure) ==
    LET r == ClientDeleteCollection(colls, name, failure) IN
    [colls |-> r.colls, raised |-> FALSE, logged |-> r.exc]

\* VectorStore(collection_name)
StoreOpen ==
    \E name \in StoreNames :
        /\ collections' = GetOrCreate(collections, name)
        /\ vs_handles' = vs_handles \cup { name }
        /\ vs_last' = StoreCall("__init__", name, FALSE, NoExc)
        /\ UNCHANGED othersStore

\* add_documents on an object whose collection exists
StoreAdd ==
    \E name \in vs_handles, n \in 1..MaxStoreChunks :
        /\ name \in DOMAIN collections
        /\ collections' = AddDocuments(collections, name, n)
        /\ vs_last' = StoreCall("add_documents", name, FALSE, NoExc)
        /\ UNCHANGED << vs_handles, othersStore >>

\* add_documents on an object whose collection was deleted: collection.add
\* raises.
StoreAddStale ==
    \E name \in vs_handles :
        /\ name \notin DOMAIN collections
        /\ vs_last' = StoreCall("add_documents", name, TRUE, NoExc)
        /\ UNCHANGED << collections, vs_handles, othersStore >>

\* delete_collection, the client deletes the collection.
StoreDelete ==
    \E name \in vs_handles :
        /\ name \in DOMAIN collections
        /\ LET r == delete_collection(collections, name, NoExc) IN
            /\ collections' = r.colls
            /\ vs_last' = StoreCall("delete_collection", name, r.raised, r.logged)
        /\ UNCHANGED << vs_handles, othersStore >>

\* delete_collection on an object whose collection is already gone.
StoreDeleteAbsent ==
    \E name \in vs_handles :
        /\ name \notin DOMAIN collections
        /\ LET r == delete_collection(collections, name, NoExc) IN
            /\ collections' = r.colls
            /\ vs_last' = StoreCall("delete_collection", name, r.raised, r.logged)
        /\ UNCHANGED << vs_handles, othersStore >>

\* delete_collection, the client fails on the call.
StoreDeleteFails ==
    \E name \in vs_handles, e \in DeleteErrors :
        /\ LET r == delete_collection(collections, name, e) IN
            /\ collections' = r.colls
            /\ vs_last' = StoreCall("delete_collection", name, r.raised, r.logged)
        /\ UNCHANGED << vs_handles, othersStore >>

NextStore ==
    \/ StoreOpen
    \/ StoreAdd
    \/ StoreAddStale
    \/ StoreDelete
    \/ StoreDeleteAbsent
    \/ StoreDeleteFails

(***************************************************************************)
(* CodebaseArchitectAgent.retrieve_context and analyze                     *)
(*   a hit = [doc, file_path, file_extension, distance]: one entry of the  *)
(*   ranked lists that VectorStore.search returns                          *)
(***************************************************************************)
MaxHits == 2

MaxHistory == 7

HISTORY_WINDOW == 6

HISTORY_CUT == 200

SYSTEM_PROMPT == "CODEBASE ARCHITECT & SENIOR DEVELOPER"

NO_CONTEXT == "No relevant code found in the codebase."

Hit(doc, path, ext, distance) ==
    [doc |-> doc, file_path |-> path, file_extension |-> ext, distance |-> distance]

HitUniverse ==
    { Hit("def login", << "src", "auth.py" >>, ".py", 10),
      Hit("def logout", << "src", "auth.py" >>, ".py", 35),
      Hit("# Readme", << "README.md" >>, ".md", 120) }

RECURSIVE SeqsUpTo(_, _)
SeqsUpTo(S, n) ==
    IF n = 0 THEN { << >> }
    ELSE LET shorter == SeqsUpTo(S, n - 1) IN
         shorter \cup { Append(t, e) : t \in { u \in shorter : Len(u) = n - 1 }, e \in S }

\* What VectorStore.search hands back: a ranked list of hits, or an error of
\* the embedding model or of the index.
SearchOutcomes ==
    { [raised |-> FALSE, hits |-> h, error |-> "none"] : h \in SeqsUpTo(HitUniverse, MaxHits) }
        \cup { [raised |-> TRUE, hits |-> << >>, error |-> "search failed"] }

\* list(file_paths) of a Python set: every path once, in an order the
\* program does not fix.
ListsOfSet(S) ==
    { t \in SeqsUpTo(S, Cardinality(S)) : Len(t) = Cardinality(S) /\ Range(t) = S }

\* One rendered section of the context: file path, 1 - distance (distances
\* in hundredths), the chunk fenced with the extension as language tag.
ContextPart(hit) ==
    [file |-> hit.file_path, relevance |-> 100 - hit.distance,
     language |-> hit.file_extension, code |-> hit.doc]

\* retrieve_context without its early return: no hits, no sections.
RetrievedContext_NoSentinel(hits) == [ i \in 1..Len(hits) |-> ContextPart(hits[i]) ]

\* The context block of retrieve_context for the hits of a search: the
\* rendered sections in rank order, or the sentinel text alone.
RetrievedContext(hits) ==
    IF hits = << >> THEN << NO_CONTEXT >>
    ELSE [ i \in 1..Len(hits) |-> ContextPart(hits[i]) ]

FilePathsOf(hits) == { hits[i].file_path : i \in 1..Len(hits) }

\* A chat message's content: an identity and a length in characters.
Content(id, len) == [id |-> id, len |-> len]

SampleMessage(i) ==
    [role |-> IF i % 2 = 1 THEN "user" ELSE "assistant",
     content |-> Content(i, IF i % 3 = 0 THEN HISTORY_CUT + 50 ELSE 20)]

HistorySamples == { [ i \in 1..n |-> SampleMessage(i) ] : n \in 0..MaxHistory }

QuestionSamples == { "how does authentication work", "thanks" }

\* msg['content'][:200]
Cut(content, n) == [id |-> content.id, len |-> IF content.len < n THEN content.len ELSE n]

\* chat_history[:6]
LastEntries_First(history, n) ==
    IF Len(history) <= n THEN history ELSE SubSeq(history, 1, n)

\* chat_history[-6:]
LastEntries(history, n) ==
    IF Len(history) <= n THEN history ELSE SubSeq(history, Len(history) - n + 1, Len(history))

\* f"**{role}**: {msg['content'][:200]}...\n\n"
HistoryLine(msg) ==
    [role |-> IF msg.role = "user" THEN "User" ELSE "Assistant",
     content |-> Cut(msg.content, HISTORY_CUT),
     suffix |-> "..."]

ConversationContext(history) ==
    IF history = << >> THEN << >>
    ELSE LET recent == LastEntries(history, HISTORY_WINDOW) IN
         [ i \in 1..Len(recent) |-> HistoryLine(recent[i]) ]

\* The prompt: its sections in the order of the f-string.  conversation_context
\* is the empty string, and the history section missing, when chat_history is
\* None or empty.
BuildPrompt(context, history, question) ==
    << [section |-> "RELEVANT CODE CONTEXT", body |-> context] >>
    \o (IF history = << >> THEN << >>
        ELSE << [section |-> "CONVERSATION HISTORY", body |-> ConversationContext(history)] >>)
    \o << [section |-> "USER QUESTION", body |-> question],
          [section |-> "GUIDELINES", body |-> "Now provide your analysis:"] >>

\* A reply or an error message: where the text comes from, and the text.
Reply(form, text) == [form |-> form, text |-> text]

ErrorSamples == { "quota exceeded", "connection reset" }

\* What self.agent.run(prompt) hands back: a response carrying content, one
\* carrying messages only, one carrying neither, or an error.
PrimaryOutcomes ==
    { [raised |-> FALSE, shape |-> sh, text |-> "primary answer", error |-> "none"] :
          sh \in { "content", "messages", "other" } }
        \cup { [raised |-> TRUE, shape |-> "none", text |-> "none", error |-> e] : e \in ErrorSamples }

\* What the direct call hands back: response.text, or an error.
FallbackOutcomes ==
    { [raised |-> FALSE, text |-> "fallback answer", error |-> "none"] }
        \cup { [raised |-> TRUE, text |-> "none", error |-> e] : e \in ErrorSamples }

\* reply extracted from the response of the agent (lines 207-212)
ExtractReply(outcome) ==
    CASE outcome.shape = "content"  -> Reply("content", outcome.text)
      [] outcome.shape = "messages" -> Reply("message content", outcome.text)
      [] OTHER                      -> Reply("str(response)", outcome.text)

Invocation(capability, prompt, system) ==
    [capability |-> capability, prompt |-> prompt, system_instruction |-> system]

Returned(reply, files) == [kind |-> "returned", reply |-> reply, relevant_files |-> files]

Raised(error) == [kind |-> "raised", reply |-> Reply("error", error), relevant_files |-> << >>]

NoResult == [kind |-> "none", reply |-> Reply("none", "none"), relevant_files |-> << >>]

NotRun == [status |-> "none", error |-> "none"]

\* f"I apologize, but I encountered an error analyzing the codebase: {str(e)}"
Apology(error) == Reply("apology", error)

FallbackPrompt_QuestionOnly(prompt) == << prompt[Len(prompt) - 1] >>

\* The prompt _fallback_gemini_call is given and passes on.
FallbackPrompt(prompt) == prompt

FallbackFailure_Reraises(error, files) == Raised(error)

\* except Exception as e: return {'reply': apology, 'relevant_files': ...}
FallbackFailure(error, files) == Returned(Apology(error), files)

\* retrieve_context raises: the error leaves analyze, nothing is generated.
AnalyzeRetrieveRaises ==
    /\ an_pc = "idle"
    /\ \E q \in QuestionSamples, h \in HistorySamples, s \in SearchOutcomes :
         /\ s.raised
         /\ an_question' = q /\ an_history' = h
         /\ an_pc' = "raised"
         /\ an_result' = Raised(s.error)
    /\ UNCHANGED << an_hits, an_context, an_files, an_prompt, an_calls, an_primary,
                    an_fallback, othersAnalyze >>

\* retrieve_context returns and the prompt is built.
AnalyzeRetrieve ==
    /\ an_pc = "idle"
    /\ \E q \in QuestionSamples, h \in HistorySamples, s \in SearchOutcomes :
         /\ ~ s.raised
         /\ an_question' = q /\ an_history' = h
         /\ an_hits' = s.hits
         /\ an_context' = RetrievedContext(s.hits)
         /\ an_files' \in ListsOfSet(FilePathsOf(s.hits))
         /\ an_prompt' = BuildPrompt(RetrievedContext(s.hits), h, q)
    /\ an_pc' = "primary"
    /\ UNCHANGED << an_calls, an_primary, an_fallback, an_result, othersAnalyze >>

\* response = self.agent.run(prompt) succeeds and the reply is returned.
AnalyzePrimaryReplies ==
    /\ an_pc = "primary"
    /\ \E o \in PrimaryOutcomes :
         /\ ~ o.raised
         /\ an_result' = Returned(ExtractReply(o), an_files)
    /\ an_calls' = Append(an_calls, Invocation("agent.run", an_prompt, SYSTEM_PROMPT))
    /\ an_primary' = "ok"
    /\ an_pc' = "returned"
    /\ UNCHANGED << an_hits, an_question, an_history, an_context, an_files, an_prompt, an_fallback,
                    othersAnalyze >>

\* self.agent.run(prompt) raises: on to _fallback_gemini_call.
AnalyzePrimaryFails ==
    /\ an_pc = "primary"
    /\ \E o \in PrimaryOutcomes : o.raised
    /\ an_calls' = Append(an_calls, Invocation("agent.run", an_prompt, SYSTEM_PROMPT))
    /\ an_primary' = "failed"
    /\ an_pc' = "fallback"
    /\ UNCHANGED << an_hits, an_question, an_history, an_context, an_files, an_prompt, an_fallback,
                    an_result, othersAnalyze >>

\* await model.generate_content_async(prompt) answers.
AnalyzeFallbackReplies ==
    /\ an_pc = "fallback"
    /\ \E o \in FallbackOutcomes :
         /\ ~ o.raised
         /\ an_result' = Returned(Reply("response.text", o.text), an_files)
    /\ an_fallback' = [status |-> "ok", error |-> "none"]
    /\ an_calls' = Append(an_calls,
           Invocation("generate_content_async", FallbackPrompt(an_prompt), SYSTEM_PROMPT))
    /\ an_pc' = "returned"
    /\ UNCHANGED << an_hits, an_question, an_history, an_context, an_files, an_prompt, an_primary,
                    othersAnalyze >>

\* The direct call raises: the apology is returned.
AnalyzeFallbackFails ==
    /\ an_pc = "fallback"
    /\ \E o \in FallbackOutcomes :
         /\ o.raised
         /\ an_fallback' = [status |-> "failed", error |-> o.error]
         /\ an_result' = FallbackFailure(o.error, an_files)
         /\ an_pc' = IF FallbackFailure(o.error, an_files).kind = "returned"
                     THEN "returned" ELSE "raised"
    /\ an_calls' = Append(an_calls,
           Invocation("generate_content_async", FallbackPrompt(an_prompt), SYSTEM_PROMPT))
    /\ UNCHANGED << an_hits, an_question, an_history, an_context, an_files, an_prompt, an_primary,
                    othersAnalyze >>

NextAnalyze ==
    \/ AnalyzeRetrieveRaises
    \/ AnalyzeRetrieve
    \/ AnalyzePrimaryReplies
    \/ AnalyzePrimaryFails
    \/ AnalyzeFallbackReplies
    \/ AnalyzeFallbackFails

(***************************************************************************)
(* The endpoints of routers/codebase.py over the table of projects and the *)
(* vector store.  A request runs from one await to the next in one step;   *)
(* between its steps the steps of other requests may run.  A request is    *)
(* received in the step in which it first reads or writes the table or the *)
(* vector store, and it leaves reqs when it is answered.                   *)
(***************************************************************************)
MaxRequests == 3

MaxClock == 1

Users == { 1, 2 }

\* Project names are sequences of code points; this one is "My App".
ProjectNames == { << 77, 121, 32, 65, 112, 112 >> }

ProjectIds == { 1, 2 }

\* The file_path of each chunk of an ingestion result, in output order.
IngestedPaths == { << >>, << "src/b.PY", "src/b.PY", "a.py" >> }

NoRow ==
    [id |-> 0, user_id |-> 0, name |-> "none", source_type |-> "none",
     vector_store_id |-> << >>, file_count |-> 0, total_chunks |-> 0]

Request(kind, user, pc, row) ==
    [rid |-> received + 1, kind |-> kind, user |-> user, pc |-> pc, row |-> row]

\* The answer to a request: its kind, the caller, the project asked for or
\* made (0 when there is none) and the HTTP status.
Response(kind, user, project_id, status) ==
    [kind |-> kind, user |-> user, project_id |-> project_id, status |-> status]

NoResponse == Response("none", 0, 0, 0)

\* The select on the id alone.
SelectProject_AnyOwner(project_id, user_id) ==
    IF \E p \in db_projects : p.id = project_id
    THEN CHOOSE p \in db_projects : p.id = project_id
    ELSE NoRow

\* The row of the select on id and user_id, NoRow when there is none.
SelectProject(project_id, user_id) ==
    IF \E p \in db_projects : p.id = project_id /\ p.user_id = user_id
    THEN CHOOSE p \in db_projects : p.id = project_id /\ p.user_id = user_id
    ELSE NoRow

CanReceive == received < MaxRequests

Tick ==
    /\ clock < MaxClock
    /\ clock' = clock + 1
    /\ UNCHANGED << db_projects, db_next_id, collections, received, reqs, last, othersService >>

\* upload_codebase: the file name does not end in .zip: 400
UploadRejected ==
    /\ CanReceive
    /\ \E user \in Users :
         last' = Response("upload", user, 0, 400)
    /\ received' = received + 1
    /\ UNCHANGED << db_projects, db_next_id, collections, clock, reqs, othersService >>

\* ingest_from_zip raises (a broken archive, an unreadable file): 500.
\* ingest_from_github raises ValueError (the clone failed): 400, or another
\* error: 500.
IngestionFails ==
    /\ CanReceive
    /\ \E user \in Users, kind \in { "upload", "github" } :
         \E status \in (IF kind = "github" THEN { 400, 500 } ELSE { 500 }) :
            last' = Response(kind, user, 0, status)
    /\ received' = received + 1
    /\ UNCHANGED << db_projects, db_next_id, collections, clock, reqs, othersService >>

\* if not chunks: raise HTTPException(status_code=400, ...)
IngestionEmpty ==
    /\ CanReceive
    /\ \E user \in Users, kind \in { "upload", "github" }, paths \in IngestedPaths :
         /\ paths = << >>
         /\ last' = Response(kind, user, 0, 400)
    /\ received' = received + 1
    /\ UNCHANGED << db_projects, db_next_id, collections, clock, reqs, othersService >>

\* The collection is made and add_documents raises (the embedding model or
\* the index fails, or the index refuses ids it already holds): 500.
IndexingFails ==
    /\ CanReceive
    /\ \E user \in Users, kind \in { "upload", "github" }, name \in ProjectNames,
          paths \in IngestedPaths :
         /\ paths # << >>
         /\ collections' = GetOrCreate(collections, create_collection_name(user, name, clock))
         /\ last' = Response(kind, user, 0, 500)
    /\ received' = received + 1
    /\ UNCHANGED << db_projects, db_next_id, clock, reqs, othersService >>

\* The collection is made, the chunks are added, the row is built and
\* handed to the session; await db.commit() is under way.
Indexed ==
    /\ CanReceive
    /\ \E user \in Users, kind \in { "upload", "github" }, name \in ProjectNames,
          paths \in IngestedPaths :
         /\ paths # << >>
         /\ LET collection_name == create_collection_name(user, name, clock) IN
            /\ collections' = AddDocuments(GetOrCreate(collections, collection_name),
                                           collection_name, Len(paths))
            /\ reqs' = reqs \cup { Request(kind, user, "commit",
                                           NewProject(kind, user, name, collection_name, paths)) }
    /\ received' = received + 1
    /\ UNCHANGED << db_projects, db_next_id, clock, last, othersService >>

Creating(r) == r.kind \in { "upload", "github" } /\ r.pc = "commit"

\* await db.commit() inserts the row; vector_store_id is unique.
ProjectCommitted ==
    \E r \in reqs :
        /\ Creating(r)
        /\ \A p \in db_projects : p.vector_store_id # r.row.vector_store_id
        /\ db_projects' = db_projects \cup { [r.row EXCEPT !.id = db_next_id] }
        /\ db_next_id' = db_next_id + 1
        /\ reqs' = reqs \ { r }
        /\ last' = Response(r.kind, r.user, db_next_id, 200)
        /\ UNCHANGED << collections, clock, received, othersService >>

\* await db.commit() raises (the database fails, or the unique constraint on
\* vector_store_id refuses the row): 500.
ProjectCommitFails ==
    \E r \in reqs :
        /\ Creating(r)
        /\ reqs' = reqs \ { r }
        /\ last' = Response(r.kind, r.user, 0, 500)
        /\ UNCHANGED << db_projects, db_next_id, collections, clock, received, othersService >>

\* list_projects: the rows of the caller are selected and returned: 200
ListProjects ==
    /\ CanReceive
    /\ \E user \in Users :
         last' = Response("list", user, 0, 200)
    /\ received' = received + 1
    /\ UNCHANGED << db_projects, db_next_id, collections, clock, reqs, othersService >>

\* delete_project / analyze_codebase: no row of this id and user: 404
ProjectNotFound ==
    /\ CanReceive
    /\ \E user \in Users, kind \in { "delete", "analyze" }, project_id \in ProjectIds :
         /\ SelectProject(project_id, user) = NoRow
         /\ last' = Response(kind, user, project_id, 404)
    /\ received' = received + 1
    /\ UNCHANGED << db_projects, db_next_id, collections, clock, reqs, othersService >>

\* delete_project / analyze_codebase: the select yields the row
ProjectFound ==
    /\ CanReceive
    /\ \E user \in Users, kind \in { "delete", "analyze" }, project_id \in ProjectIds :
         /\ SelectProject(project_id, user) # NoRow
         /\ reqs' = reqs \cup { Request(kind, user, "found", SelectProject(project_id, user)) }
    /\ received' = received + 1
    /\ UNCHANGED << db_projects, db_next_id, collections, clock, last, othersService >>

\* delete_project: VectorStore(project.vector_store_id).delete_collection()
\* removes the collection; await db.delete(project) follows.
CollectionDropped ==
    \E r \in reqs :
        /\ r.kind = "delete" /\ r.pc = "found"
        /\ collections' = DeleteCollection(GetOrCreate(collections, r.row.vector_store_id),
                                           r.row.vector_store_id)
        /\ reqs' = (reqs \ { r }) \cup { [r EXCEPT !.pc = "commit"] }
        /\ UNCHANGED << db_projects, db_next_id, clock, received, last, othersService >>

\* delete_project: delete_collection raises inside; the error is printed and
\* swallowed, the collection stays.
CollectionDropFails ==
    \E r \in reqs :
        /\ r.kind = "delete" /\ r.pc = "found"
        /\ collections' = GetOrCreate(collections, r.row.vector_store_id)
        /\ reqs' = (reqs \ { r }) \cup { [r EXCEPT !.pc = "commit"] }
        /\ UNCHANGED << db_projects, db_next_id, clock, received, last, othersService >>

Deleting(r) == r.kind = "delete" /\ r.pc = "commit"

\* delete_project: await db.commit() deletes the row: 200
ProjectDeleted ==
    \E r \in reqs :
        /\ Deleting(r)
        /\ r.row \in db_projects
        /\ db_projects' = db_projects \ { r.row }
        /\ reqs' = reqs \ { r }
        /\ last' = Response("delete", r.user, r.row.id, 200)
        /\ UNCHANGED << db_next_id, collections, clock, received, othersService >>

\* delete_project: await db.commit() raises (the database fails, or the row
\* is gone already): 500.
ProjectDeleteFails ==
    \E r \in reqs :
        /\ Deleting(r)
        /\ reqs' = reqs \ { r }
        /\ last' = Response("delete", r.user, r.row.id, 500)
        /\ UNCHANGED << db_projects, db_next_id, collections, clock, received, othersService >>

Analyzing(r) == r.kind = "analyze" /\ r.pc = "found"

\* analyze_codebase: VectorStore(project.vector_store_id) gets or makes the
\* collection; then create_rag_agent raises for want of the API key, or
\* retrieve_context raises: 500.
AnalysisFails ==
    \E r \in reqs :
        /\ Analyzing(r)
        /\ collections' = GetOrCreate(collections, r.row.vector_store_id)
        /\ reqs' = reqs \ { r }
        /\ last' = Response("analyze", r.user, r.row.id, 500)
        /\ UNCHANGED << db_projects, db_next_id, clock, received, othersService >>

\* analyze_codebase: the agent answers on its primary path: 200.
AnalysisReplies ==
    \E r \in reqs :
        /\ Analyzing(r)
        /\ collections' = GetOrCreate(collections, r.row.vector_store_id)
        /\ reqs' = reqs \ { r }
        /\ last' = Response("analyze", r.user, r.row.id, 200)
        /\ UNCHANGED << db_projects, db_next_id, clock, received, othersService >>

\* analyze_codebase: the primary path failed; the request waits for
\* generate_content_async of the fallback.
AnalysisFallsBack ==
    \E r \in reqs :
        /\ Analyzing(r)
        /\ collections' = GetOrCreate(collections, r.row.vector_store_id)
        /\ reqs' = (reqs \ { r }) \cup { [r EXCEPT !.pc = "fallback"] }
        /\ UNCHANGED << db_projects, db_next_id, clock, received, last, othersService >>

\* analyze_codebase: the fallback answers or apologizes: 200.
AnalysisFallbackReplies ==
    \E r \in reqs :
        /\ r.kind = "analyze" /\ r.pc = "fallback"
        /\ reqs' = reqs \ { r }
        /\ last' = Response("analyze", r.user, r.row.id, 200)
        /\ UNCHANGED << db_projects, db_next_id, collections, clock, received, othersService >>

Next ==
    \/ Tick
    \/ UploadRejected
    \/ IngestionFails
    \/ IngestionEmpty
    \/ IndexingFails
    \/ Indexed
    \/ ProjectCommitted
    \/ ProjectCommitFails
    \/ ListProjects
    \/ ProjectNotFound
    \/ ProjectFound
    \/ CollectionDropped
    \/ CollectionDropFails
    \/ ProjectDeleted
    \/ ProjectDeleteFails
    \/ AnalysisFails
    \/ AnalysisReplies
    \/ AnalysisFallsBack
    \/ AnalysisFallbackReplies

(***************************************************************************)
(* Properties of the file-level functions (checked under SpecFile)         *)
(***************************************************************************)
SplitShortText == fl_op = "split_text" /\ fl_arg.len < chunk_size

\* C11 as claimed: for every text T shorter than the chunk size (1500
\* characters) the chunker returns exactly one chunk, and it is equal to T.
C11_ShortTextIsItsOwnChunk == SplitShortText => fl_res = << fl_arg >>

\* C11 as amended: for every text T shorter than the chunk size the chunker
\* returns no chunk when T is empty or whitespace alone, and otherwise
\* exactly one chunk, which is T without the whitespace T begins and ends
\* with.
C11_ShortTextIsOneStrippedChunk ==
    SplitShortText =>
        LET T == fl_arg IN
        IF \A i \in 1..T.len : IsSpace(CharAt(T, i))
        THEN fl_res = << >>
        ELSE /\ Len(fl_res) = 1
             /\ LET chunk == fl_res[1] IN
                /\ chunk.len >= 1
                /\ ~ IsSpace(CharAt(chunk, 1))
                /\ ~ IsSpace(CharAt(chunk, chunk.len))
                /\ \E lead \in 0..(T.len - chunk.len) :
                      /\ \A i \in 1..lead : IsSpace(CharAt(T, i))
                      /\ \A i \in 1..chunk.len : CharAt(chunk, i) = CharAt(T, lead + i)
                      /\ \A i \in (lead + chunk.len + 1)..T.len : IsSpace(CharAt(T, i))

\* The text "\ta b\n" came back as the one chunk "a b".
C11_Witness ==
    /\ fl_op = "split_text"
    /\ fl_arg = MkText(<< 9, 97, 32, 98, 10 >>, 5)
    /\ fl_res = << MkText(<< 97, 32, 98 >>, 3) >>

\* C7: should_process_file(path) is true exactly when the extension, compared
\* case-insensitively, is in the allow-list, the base name is not in the file
\* deny-list, no ancestor directory name is in the directory deny-list, and
\* stat succeeds with a size of at most 1,000,000 bytes.
C7_FilterAcceptsExactly ==
    fl_op = "should_process_file" =>
        ( fl_res <=>
            /\ \E ext \in CODE_EXTENSIONS : Lower(Suffix(fl_arg.name)) = ext
            /\ \A f \in IGNORE_FILES : fl_arg.name # f
            /\ \A i \in 1..Len(fl_arg.parents) : fl_arg.parents[i] \notin IGNORE_DIRS
            /\ fl_arg.stat = "ok"
            /\ fl_arg.size <= 1000000 )

\* A file of exactly 1,000,000 bytes with an upper-case extension is accepted,
\* and one of 1,000,001 bytes has been rejected.
C7_Witness ==
    /\ fl_op = "should_process_file"
    /\ fl_arg.size = 1000000
    /\ fl_arg.name = "b.PY"
    /\ fl_res = TRUE

\* The encodings of C9 in the order the claim gives them.
ClaimedOrder == << "utf-8", "latin-1", "cp1252" >>

Decodable(file) == { i \in 1..Len(ClaimedOrder) : Decode(ClaimedOrder[i], file.bytes).ok }

FirstDecodable(file) == CHOOSE i \in Decodable(file) : \A j \in Decodable(file) : i <= j

\* C9: read_file_content tries UTF-8, Latin-1, CP1252 in that order and returns
\* the text of the first encoding that decodes the file; a decode failure never
\* raises, and when no encoding decodes the file the result is the empty string.
C9_FirstDecodingEncodingWins ==
    (fl_op = "read_file_content" /\ fl_arg.open = "ok") =>
        /\ ~ fl_res.raised
        /\ IF Decodable(fl_arg) = {}
           THEN fl_res.text = EmptyText /\ fl_res.tried = ClaimedOrder
           ELSE /\ fl_res.tried = SubSeq(ClaimedOrder, 1, FirstDecodable(fl_arg))
                /\ fl_res.text = Decode(ClaimedOrder[FirstDecodable(fl_arg)], fl_arg.bytes).text

\* Bytes that are valid UTF-8 and would read differently as Latin-1 have been
\* read as UTF-8, and bytes that are not UTF-8 have been read as Latin-1.
C9_Witness ==
    /\ fl_op = "read_file_content"
    /\ fl_arg.open = "ok"
    /\ fl_arg.bytes.unit = << 233 >>
    /\ fl_arg.bytes.reps = 2
    /\ fl_res.tried = << "utf-8", "latin-1" >>
    /\ fl_res.text = [unit |-> << 233 >>, len |-> 2]

\* C21: for every user id and project name, also an empty name, one longer
\* than 30 characters and one with non-ASCII or punctuation characters,
\* create_collection_name returns 3 to 63 characters, each a letter or digit
\* of the storage backend's alphabet (a-z, A-Z, 0-9), "_" or "-".
C21_CollectionNameIsValid ==
    fl_op = "create_collection_name" =>
        /\ Len(fl_res) >= 3
        /\ Len(fl_res) <= 63
        /\ \A i \in 1..Len(fl_res) : fl_res[i] \in AsciiAlnum \cup { 95, 45 }

\* C23: with the generation API key absent, generate_reply returns its fixed
\* explanatory reply, invokes no model and raises nothing, while the
\* construction of the RAG agent raises at once, before any retrieval or
\* generation call.
C23_MissingKeyDegradesOrFailsEagerly ==
    /\ (fl_op = "generate_reply" /\ fl_arg.env = EmptyText) =>
          /\ ~fl_res.raised
          /\ fl_res.text = MISSING_KEY_REPLY
          /\ fl_res.calls = << >>
    /\ (fl_op = "create_rag_agent" /\ fl_arg.env = EmptyText) =>
          /\ fl_res.raised
          /\ fl_res.exc.type = "ValueError"
          /\ fl_res.calls = << >>

\* The agent is constructed without a key in the environment.
C23_Witness ==
    /\ fl_op = "create_rag_agent"
    /\ fl_arg.env = EmptyText
    /\ fl_res.raised

(***************************************************************************)
(* Properties of process_codebase (checked under SpecIngest)               *)
(***************************************************************************)
Visited == { ing_tree[k] : k \in 1..(ing_pos - 1) }

Records == 1..Len(all_metadatas)

\* The records of the result that carry the file_path of record i.
SameFile(i) == { j \in Records : all_metadatas[j].file_path = all_metadatas[i].file_path }

\* C4: chunks, metadatas and ids have the same length, and record i describes
\* one chunk: chunks[i] is the chunk number metadatas[i].chunk_index of the
\* text of the file at metadatas[i].file_path, relative to the root.
C4_RecordsDescribeTheirChunk ==
    /\ Len(all_chunks) = Len(all_metadatas)
    /\ Len(all_ids) = Len(all_metadatas)
    /\ \A i \in Records :
         \E e \in Visited :
            /\ e.kind = "file"
            /\ all_metadatas[i].file_path = e.dirs \o << e.name >>
            /\ LET pieces == split_text(read_file_content(e).text)
                   at     == all_metadatas[i].chunk_index + 1 IN
               at \in 1..Len(pieces) /\ all_chunks[i] = pieces[at]

\* The run has returned records of a file in a sub-directory split into
\* several chunks, and of a second file.
C4_Witness ==
    /\ ing_pc = "returned"
    /\ \E i, j \in Records :
         /\ all_metadatas[i].file_path = << "src", "b.PY" >>
         /\ all_metadatas[i].chunk_index = 1
         /\ all_metadatas[j].file_path = << "a.py" >>

\* C5: the ids of a run are chunk_0, chunk_1, ... chunk_{N-1} in output order:
\* the counter starts at 0, counts every chunk of every file and nothing else.
C5_IdsCountChunks ==
    /\ chunk_id = Len(all_chunks)
    /\ all_ids = [ k \in 1..Len(all_chunks) |-> << "chunk_", k - 1 >> ]

\* The run has returned the chunks of two files, the second of them visited
\* after a file that was filtered out and one that was skipped as empty.
C5_Witness ==
    /\ ing_pc = "returned"
    /\ Len(ing_tree) = 3
    /\ ing_tree[1].name = "README.md"
    /\ ing_tree[2].name \in { "blank.md", "img.png" }
    /\ ing_tree[3].name = "a.py"
    /\ Len(all_ids) = 4
    /\ all_ids[4] = << "chunk_", 3 >>

\* C6: the records of one file carry chunk_index 0, 1, ... n-1 in output order
\* and all carry total_chunks = n, the number of chunks of that file.
C6_ChunkIndexRange ==
    \A i \in Records :
        /\ all_metadatas[i].total_chunks = Cardinality(SameFile(i))
        /\ all_metadatas[i].chunk_index = Cardinality({ j \in SameFile(i) : j < i })
        /\ all_metadatas[i].chunk_index < all_metadatas[i].total_chunks

\* The run has returned a file of three chunks followed by another file.
C6_Witness ==
    /\ ing_pc = "returned"
    /\ \E i \in Records :
         /\ all_metadatas[i].total_chunks = 3
         /\ all_metadatas[i].chunk_index = 2
         /\ i < Len(all_metadatas)

\* A file that no step of the walk can turn into text: stat fails, open
\* fails, or no encoding decodes it.
BadFile(e) ==
    /\ e.kind = "file"
    /\ \/ e.stat # "ok"
       \/ e.open # "ok"
       \/ \A i \in 1..Len(ClaimedOrder) : ~ Decode(ClaimedOrder[i], e.bytes).ok

\* What the walk yields for the entries it ingests, file by file.
RECURSIVE ExpectedRecords(_, _)
ExpectedRecords(root, tree) ==
    IF tree = << >> THEN [chunks |-> << >>, metadatas |-> << >>]
    ELSE LET e    == Head(tree)
             rest == ExpectedRecords(root, Tail(tree))
             text == Decode(ClaimedOrder[FirstDecodable(e)], e.bytes).text
             take == /\ e.kind = "file"
                     /\ should_process_file(PathOf(root, e))
                     /\ text # EmptyText /\ ~ AllSpace(text.unit)
             n    == NumChunks(text.len) IN
         IF take
         THEN [chunks    |-> split_text(text) \o rest.chunks,
               metadatas |-> [ k \in 1..n |-> ChunkMetadata(e, k - 1, n) ] \o rest.metadatas]
         ELSE rest

Good(e) == ~ BadFile(e)

\* C8: a file whose stat, read or decode fails is skipped and the walk goes
\* on: the run never ends by raising, and it returns the chunks and metadata
\* that the tree without its bad files yields.
C8_BadFileNeverAborts ==
    /\ ing_pc # "raised"
    /\ ing_pc = "returned" =>
          LET expected == ExpectedRecords(ing_root, SelectSeq(ing_tree, Good)) IN
          all_chunks = expected.chunks /\ all_metadatas = expected.metadatas

\* A file that passes the filter and whose text is empty or whitespace only.
BlankFile(e) ==
    /\ e.kind = "file"
    /\ should_process_file(PathOf(ing_root, e))
    /\ LET r == read_file_content(e) IN
       ~ r.raised /\ \A k \in 1..Len(r.text.unit) : IsSpace(r.text.unit[k])

NoRecordOfBlankFiles ==
    \A e \in Visited :
        BlankFile(e) => \A i \in Records : all_metadatas[i].file_path # RelPath(e)

VisitOfBlankFileChangesNothing ==
    (Visiting /\ BlankFile(Current)) =>
        UNCHANGED << all_chunks, all_metadatas, all_ids, chunk_id >>

\* C10: a file that passes the filter and whose decoded text is empty or
\* whitespace only adds no chunk record and uses no id (the visit leaves the
\* chunks, metadata, ids and the id counter as they were), and no metadata of
\* the result carries its path.
C10_BlankFileLeavesNoTrace ==
    [] NoRecordOfBlankFiles /\ [][VisitOfBlankFileChangesNothing]_vars

\* The walk has gone past a file of no-break spaces, which is not UTF-8 and
\* reads as whitespace in Latin-1, after it ingested another file.
C10_Witness ==
    /\ ing_pc = "returned"
    /\ Len(ing_tree) = 3
    /\ ing_tree[1].name = "a.py"
    /\ ing_tree[2].name = "nbsp.txt"
    /\ ing_tree[3].name = "latin.txt"
    /\ BlankFile(ing_tree[2])
    /\ Len(all_ids) = 2

\* The files of the tree, in the order of the walk.
FilesOf(tree) == SelectSeq(tree, LAMBDA e : e.kind = "file")

\* The only file of the tree is a.py, which holds 3000 characters without a
\* separator and passes the file filter, and the ingestion has returned.
IngestedOnlyBigA ==
    /\ ing_pc = "returned"
    /\ Len(FilesOf(ing_tree)) = 1
    /\ LET e == FilesOf(ing_tree)[1] IN
          /\ RelPath(e) = << "a.py" >>
          /\ should_process_file(PathOf(ing_root, e))
          /\ e.stat = "ok" /\ e.open = "ok"
          /\ Len(e.bytes.unit) * e.bytes.reps = 3000
          /\ Decode("utf-8", e.bytes).ok
          /\ Decode("utf-8", e.bytes).text.len = 3000

\* C12 as claimed: a tree whose only file is a.py with 3000 characters of
\* text yields exactly 2 chunks, with the ids chunk_0 and chunk_1 and
\* total_chunks = 2 on both.
C12_TwoChunksOf3000 ==
    IngestedOnlyBigA =>
        /\ Len(all_chunks) = 2
        /\ all_ids = << << "chunk_", 0 >>, << "chunk_", 1 >> >>
        /\ \A i \in 1..Len(all_metadatas) : all_metadatas[i].total_chunks = 2

\* C12 as amended: a tree whose only file is a.py with 3000 characters that
\* hold no separator of the splitter yields exactly 3 chunks, of 1500, 1500
\* and 400 characters, each beginning 1300 characters after the one before;
\* their ids are chunk_0, chunk_1, chunk_2 and total_chunks is 3 on all.
C12_ThreeChunksOf3000 ==
    IngestedOnlyBigA =>
        /\ Len(all_chunks) = 3
        /\ [ i \in 1..3 |-> all_chunks[i].len ] = << 1500, 1500, 400 >>
        /\ all_ids = << << "chunk_", 0 >>, << "chunk_", 1 >>, << "chunk_", 2 >> >>
        /\ Len(all_metadatas) = 3
        /\ \A i \in 1..Len(all_metadatas) :
              /\ all_metadatas[i].total_chunks = 3
              /\ all_metadatas[i].chunk_index = i - 1
              /\ all_metadatas[i].file_path = << "a.py" >>

\* a.py of 3000 characters was ingested from a clone that holds nothing else
\* but a directory.
C12_Witness ==
    /\ IngestedOnlyBigA
    /\ ing_source.kind = "github"
    /\ Len(ing_tree) = 2
    /\ chunk_id = 3
    /\ file_count = 1

\* The archive of the run, as names below the extraction directory.
MemberPaths == { RelPath(ing_source.members[k]) : k \in 1..Len(ing_source.members) }

TopNames == { path[1] : path \in MemberPaths }

\* The top-level names that are directories: something lies below them, or
\* the archive lists them as a directory.
TopDirectories ==
    { top \in TopNames :
        \E k \in 1..Len(ing_source.members) :
            LET e == ing_source.members[k] IN
            /\ RelPath(e)[1] = top
            /\ (Len(RelPath(e)) > 1 \/ e.kind = "dir") }

\* root_path is `root`, and every file_path of the result is the path of a
\* file of the archive taken relative to `root`.
RootIs(root) ==
    /\ ing_root = root
    /\ \A i \in 1..Len(all_metadatas) :
          \E k \in 1..Len(ing_source.members) :
              /\ ing_source.members[k].kind = "file"
              /\ TempDir \o RelPath(ing_source.members[k]) = root \o all_metadatas[i].file_path

\* C13 as claimed: when the extracted archive contains exactly one top-level
\* directory, that directory is the root and every file_path is relative to
\* it; otherwise the extraction directory is the root.
C13_OneTopLevelDirectoryIsRoot ==
    ing_source.kind = "zip" =>
        IF Cardinality(TopDirectories) = 1
        THEN RootIs(Append(TempDir, CHOOSE top \in TopDirectories : TRUE))
        ELSE RootIs(TempDir)

\* C13 as amended: when the extraction directory holds exactly one entry and
\* that entry is a directory, that directory is the root and every file_path
\* is relative to it, not prefixed by its name; in every other case (no
\* entry, a single file, several entries of which one or more are
\* directories) the extraction directory is the root.
C13_SoleTopLevelEntryIsRoot ==
    ing_source.kind = "zip" =>
        IF Cardinality(TopNames) = 1 /\ TopDirectories = TopNames
        THEN RootIs(Append(TempDir, CHOOSE top \in TopNames : TRUE))
        ELSE RootIs(TempDir)

\* An archive whose sole top-level entry is the directory myrepo, holding
\* README.md and node_modules/x.js: the records are those of README.md, at
\* the path README.md.
C13_Witness ==
    /\ ing_pc = "returned"
    /\ ing_source.kind = "zip"
    /\ MemberPaths = { << "myrepo" >>, << "myrepo", "README.md" >>,
                       << "myrepo", "node_modules", "x.js" >> }
    /\ ing_root = << "tmp", "tmpk3x9", "myrepo" >>
    /\ file_count = 1
    /\ Len(all_metadatas) >= 1
    /\ \A i \in 1..Len(all_metadatas) : all_metadatas[i].file_path = << "README.md" >>

\* The result holds records of the file.
IngestedFile(e) == \E i \in Records : all_metadatas[i].file_path = RelPath(e)

\* The file passes the filter on its path below the root, its name and its
\* size, and its text is not blank.
EligibleBelowRoot(e) ==
    /\ e.kind = "file"
    /\ should_process_file(PathOf(<< >>, e))
    /\ LET r == read_file_content(e) IN ~ r.raised /\ Strip(r.text) # EmptyText

\* C27: whether a file under the source root is ingested depends only on its
\* path relative to the root, its base name and its size: the names of the
\* root directory and of the directories above it never cause a rejection.
C27_RootNamesNeverReject ==
    ing_pc = "returned" =>
        \A e \in Visited : IngestedFile(e) <=> EligibleBelowRoot(e)

(***************************************************************************)
(* Properties of the upload and clone requests (checked under SpecRequest) *)
(***************************************************************************)
IngestionLeft == ing_pc \in { "returned", "raised" }

RequestFinished == handler.pc = "finished"

\* C14: on every exit path of an archive or clone ingestion (success, every
\* file rejected, extraction error, clone error, error in a later step of the
\* request) the temporary extraction or clone directory is gone as soon as
\* the ingestion is left, and once the request has finished the temporarily
\* saved upload file is gone as well.
C14_TemporariesRemoved ==
    /\ IngestionLeft => ~ ing_tempdir
    /\ (RequestFinished /\ ing_pc # "start") =>
          /\ IngestionLeft
          /\ ~ ing_tempdir
          /\ ~ handler.temp_file

\* An upload whose archive could not be unpacked has been answered; the
\* directory and the saved file are gone.
C14_Witness ==
    /\ RequestFinished
    /\ ing_source.kind = "zip"
    /\ ing_exc.type = "BadZipFile"
    /\ handler.status = 500
    /\ ~ ing_tempdir
    /\ ~ handler.temp_file

CloneFailed == ing_source.kind = "github" /\ ~ ing_source.ok

\* C15: a failure of the shallow clone is answered by the clone endpoint
\* with HTTP 400 carrying the message of the failure, never with the 500 of
\* an unhandled error, and no collection and no project record is made.
C15_CloneFailureIsValidationError ==
    CloneFailed =>
        /\ ~ handler.collection
        /\ ~ handler.project
        /\ ing_pc \in { "start", "entered", "raised" }
        /\ RequestFinished =>
              /\ handler.status = 400
              /\ \E e \in GitErrors :
                    handler.detail = << "Failed to clone repository: " >> \o e.msg

\* The clone of an unreachable host was answered with 400.
C15_Witness ==
    /\ CloneFailed
    /\ RequestFinished
    /\ handler.status = 400
    /\ handler.detail = << "Failed to clone repository: ", "could not resolve host" >>
    /\ ~ ing_tempdir

\* The text of a file that opens, in the first encoding that decodes it.
TextOf(e) == Decode(ClaimedOrder[FirstDecodable(e)], e.bytes).text

\* The source can be fetched and none of its files yields a chunk: each is
\* rejected by the filter, or passes it and holds no text or whitespace only.
NothingToIngest ==
    /\ ing_source.ok
    /\ LET root == RootPath(ing_source)
           tree == Rglob(ing_source, root) IN
       \A k \in 1..Len(tree) :
           LET e == tree[k] IN
           e.kind = "file" =>
               \/ ~ should_process_file(PathOf(root, e))
               \/ /\ e.open = "ok"
                  /\ \A i \in 1..TextOf(e).len : IsSpace(CharAt(TextOf(e), i))

\* C16: when no file of the tree passes the filter, or every file that
\* passes it is empty, the ingestion returns three empty sequences and does
\* not raise, and the upload and clone endpoints answer 400 (no processable
\* files) without making a collection or a project record.
C16_EmptyIngestionIsValidationFailure ==
    NothingToIngest =>
        /\ ing_pc # "raised"
        /\ ing_pc = "returned" =>
              (all_chunks = << >> /\ all_metadatas = << >> /\ all_ids = << >>)
        /\ ~ handler.collection
        /\ ~ handler.project
        /\ (RequestFinished /\ ing_pc # "start") =>
              /\ ing_pc = "returned"
              /\ handler.status = 400
              /\ handler.detail \in { << NO_FILES_IN_ZIP >>, << NO_FILES_IN_REPOSITORY >> }

\* An upload whose archive holds a file in node_modules and a file of
\* no-break spaces was answered with 400.
C16_Witness ==
    /\ NothingToIngest
    /\ RequestFinished
    /\ ing_source.kind = "zip"
    /\ Len(ing_tree) = 2
    /\ \E k \in 1..2 : ing_tree[k].name = "x.js"
    /\ \E k \in 1..2 : ing_tree[k].name = "nbsp.txt"
    /\ handler.status = 400
    /\ handler.detail = << NO_FILES_IN_ZIP >>

\* C29: after a successful upload or clone request the stored Project's
\* total_chunks is the number of records added to its collection and its
\* file_count the number of distinct file_path values among those records, so
\* 1 <= file_count <= total_chunks for every Project.
C29_StoredCountsMatchRecords ==
    \A p \in db_projects :
        /\ p.vector_store_id \in DOMAIN collections
        /\ p.total_chunks = Cardinality(collections[p.vector_store_id])
        /\ p.total_chunks = Len(all_metadatas)
        /\ p.file_count =
              Cardinality({ all_metadatas[i].file_path : i \in 1..Len(all_metadatas) })
        /\ 1 <= p.file_count
        /\ p.file_count <= p.total_chunks

\* A clone of two files, one of them split into several chunks, is stored.
C29_Witness ==
    /\ handler.status = 200
    /\ ing_source.kind = "github"
    /\ \E p \in db_projects :
          /\ p.source_type = "github"
          /\ p.file_count = 2
          /\ p.total_chunks > 2

(***************************************************************************)
(* Properties of VectorStore (checked under SpecStore)                     *)
(***************************************************************************)
DeleteCalled == vs_last.op = "delete_collection"

\* C17 as stated: delete_collection is idempotent: it does not raise, also
\* not on a collection that is already absent, and after a call, however many
\* went before, the collection with all its records is absent.
C17_DeleteAlwaysLeavesAbsent ==
    DeleteCalled =>
        /\ ~vs_last.raised
        /\ vs_last.name \notin DOMAIN collections

\* C17: delete_collection never raises, also not on a collection that is
\* already absent; whenever the client either deleted the collection or
\* reported it as not existing, the collection with all its records is absent
\* after the call; any other failure of the client is printed and swallowed
\* as well, and only then can the collection still be there.
C17_DeleteNeverRaises ==
    DeleteCalled =>
        /\ ~vs_last.raised
        /\ vs_last.logged \in { NoExc, NotFound(vs_last.name) }
              => vs_last.name \notin DOMAIN collections
        /\ vs_last.name \in DOMAIN collections => vs_last.logged \in DeleteErrors

\* A call on an object whose collection an earlier call had deleted: the
\* client's complaint is printed, nothing is raised.
C17_Witness ==
    /\ DeleteCalled
    /\ vs_last.logged = NotFound(vs_last.name)
    /\ ~vs_last.raised
    /\ vs_last.name \notin DOMAIN collections

(***************************************************************************)
(* Properties of analyze (checked under SpecAnalyze)                       *)
(***************************************************************************)
BothPathsFailed == an_primary = "failed" /\ an_fallback.status = "failed"

\* C2 as claimed: analyze always returns a reply and no error ever escapes to
\* its caller; when the primary and the fallback invocation both fail, the
\* apology embedding the error message is returned with the relevant_files.
C2_NoErrorEscapes ==
    /\ an_pc # "raised"
    /\ BothPathsFailed =>
          /\ an_pc = "returned"
          /\ an_result = Returned(Apology(an_fallback.error), an_files)

\* C2 as amended: no error of the generation capability escapes.  Once
\* retrieve_context has returned, analyze does not raise, and when the primary
\* and the fallback invocation both fail it returns the apology embedding the
\* fallback's error message with the retrieved relevant_files.  The one error
\* that leaves analyze is an error of retrieve_context, raised before any
\* generation call.
C2_GenerationErrorsNeverEscape ==
    /\ an_pc = "raised" => (an_calls = << >> /\ an_primary = "none" /\ an_result.kind = "raised")
    /\ an_pc = "returned" => an_result.kind = "returned"
    /\ BothPathsFailed =>
          /\ an_pc = "returned"
          /\ an_result = Returned(Apology(an_fallback.error), an_files)

\* Both invocations failed and the apology came back with a file list.
C2_Witness ==
    /\ an_pc = "returned"
    /\ BothPathsFailed
    /\ an_result.reply = Apology("quota exceeded")
    /\ Len(an_result.relevant_files) = 2

Fallbacks == { i \in 1..Len(an_calls) : an_calls[i].capability = "generate_content_async" }

Finished == an_pc \in { "returned", "raised" }

\* C3: in one analyze call the fallback path is invoked if and only if the
\* primary path failed, at most once and after the primary attempt, with the
\* prompt and the system instruction the primary was given; no capability is
\* attempted twice, so there are at most two generation invocations.
C3_OneFallbackAfterPrimaryFailure ==
    /\ Len(an_calls) <= 2
    /\ \A i, j \in 1..Len(an_calls) : i # j => an_calls[i].capability # an_calls[j].capability
    /\ Fallbacks # {} => (an_primary = "failed" /\ Fallbacks = { 2 }
                             /\ an_calls[1].capability = "agent.run")
    /\ (Finished /\ an_primary = "failed") => Fallbacks # {}
    /\ \A i \in Fallbacks :
          /\ an_calls[i].prompt = an_calls[1].prompt
          /\ an_calls[i].prompt = BuildPrompt(an_context, an_history, an_question)
          /\ an_calls[i].system_instruction = an_calls[1].system_instruction

\* The primary path failed and the fallback answered, on a prompt that holds a
\* code context and a conversation history.
C3_Witness ==
    /\ an_pc = "returned"
    /\ an_primary = "failed"
    /\ an_fallback.status = "ok"
    /\ Len(an_calls) = 2
    /\ Len(an_context) = MaxHits
    /\ Len(an_history) = MaxHistory
    /\ an_result.reply.text = "fallback answer"

\* retrieve_context has returned in this call of analyze.
Retrieved == an_prompt # << >>

\* C18: when the index returns no documents for the query, retrieve_context
\* returns the sentinel text "No relevant code found in the codebase." as the
\* context and an empty relevant_files list, and no error is raised.
C18_NoDocumentsGivesSentinel ==
    (Retrieved /\ an_hits = << >>) =>
        /\ Len(an_context) = 1
        /\ an_context[1] = "No relevant code found in the codebase."
        /\ an_files = << >>
        /\ an_result.kind # "raised"
        /\ an_result.relevant_files = << >>

\* A search without hits, answered to the end.
C18_Witness ==
    /\ Retrieved /\ an_hits = << >>
    /\ an_pc = "returned"
    /\ Len(an_context) = 1
    /\ an_result.kind = "returned"

\* The distinct file paths of the hits, each at the rank of its first hit.
FirstAppearances(hits) ==
    LET first == { i \in 1..Len(hits) :
                     \A j \in 1..(i - 1) : hits[j].file_path # hits[i].file_path }
        IsFirst(hit_at) == hit_at \in first
        ranks == SelectSeq([ i \in 1..Len(hits) |-> i ], IsFirst)
    IN [ k \in 1..Len(ranks) |-> hits[ranks[k]].file_path ]

\* C19: relevant_files holds every distinct file_path of the hits once, in
\* the order of first appearance in the ranked list.
C19_FilesInOrderOfFirstAppearance ==
    Retrieved => an_files = FirstAppearances(an_hits)

\* C20: the prompt holds, in this order, the code context block, the
\* conversation history section and the question; the history section is
\* there only when chat_history is non-empty, and its lines are the last
\* min(6, len(chat_history)) entries in their order, each with its role label
\* and its content cut to at most 200 characters.
C20_PromptLayout ==
    Retrieved =>
        LET n == Len(an_history)
            k == IF n < 6 THEN n ELSE 6
            size == Len(an_prompt)
        IN /\ [ i \in 1..size |-> an_prompt[i].section ] =
                 IF n = 0
                 THEN << "RELEVANT CODE CONTEXT", "USER QUESTION", "GUIDELINES" >>
                 ELSE << "RELEVANT CODE CONTEXT", "CONVERSATION HISTORY",
                         "USER QUESTION", "GUIDELINES" >>
           /\ an_prompt[1].body = an_context
           /\ an_prompt[size - 1].body = an_question
           /\ n > 0 =>
                 LET lines == an_prompt[2].body IN
                 /\ Len(lines) = k
                 /\ \A i \in 1..k :
                      LET msg == an_history[n - k + i] IN
                      /\ lines[i].role = (IF msg.role = "user" THEN "User" ELSE "Assistant")
                      /\ lines[i].content.id = msg.content.id
                      /\ lines[i].content.len =
                             (IF msg.content.len < 200 THEN msg.content.len ELSE 200)

\* A history of more than six entries, one of the last six longer than 200
\* characters: six lines, that one cut.
C20_Witness ==
    /\ Retrieved
    /\ Len(an_history) > 6
    /\ Len(an_prompt) = 4
    /\ Len(an_prompt[2].body) = 6
    /\ \E i \in 1..6 :
          /\ an_history[Len(an_history) - 6 + i].content.len > 200
          /\ an_prompt[2].body[i].content.len = 200

(***************************************************************************)
(* Properties of the endpoints (checked under Spec)                        *)
(***************************************************************************)
ProjectsOf(name) == { p \in db_projects : p.vector_store_id = name }

\* C1: after any sequence of upload, clone, analyze and delete requests, the
\* failing ones included, every collection of the vector store is the
\* vector_store_id of exactly one project row: no collection is orphaned.
\* The rows are compared once every request received has been answered.
C1_NoOrphanCollections ==
    reqs = {} => \A name \in DOMAIN collections : Cardinality(ProjectsOf(name)) = 1

\* The ingestion attempts that obtained a collection name and added their
\* documents: those awaiting their commit and those committed.
Attempts ==
    { [who |-> << "request", r.rid >>, name |-> r.row.vector_store_id] :
          r \in { q \in reqs : Creating(q) } }
        \cup { [who |-> << "project", p.id >>, name |-> p.vector_store_id] : p \in db_projects }

\* C22: the collection identifier is unique per ingestion attempt: two
\* attempts, also two of one user with one project name that run concurrently
\* or within the same second, never obtain the same identifier, so no two
\* ingestions add documents to the same collection.
C22_CollectionIdentifierUnique ==
    \A a, b \in Attempts : a.who # b.who => a.name # b.name

\* A step of an analyze request or a whole list-projects request.
AnalyzeOrListStep ==
    \/ \E r \in reqs : r.kind = "analyze" /\ r \notin reqs'
    \/ \E r \in reqs' : r.kind = "analyze" /\ r \notin reqs
    \/ received' = received + 1 /\ last' # last /\ last'.kind \in { "analyze", "list" }

\* C24: a Project and its chunk records are immutable after creation: an
\* analyze request, successful or failed, and a list-projects request leave
\* every Project record, the set of collections and the records of every
\* collection unchanged.
C24_AnalyzeAndListChangeNothing ==
    [][AnalyzeOrListStep => UNCHANGED << db_projects, collections >>]_vars

\* C26: when a delete-project request and an analyze request for the same
\* project interleave, then once both have completed the Project record and
\* its collection are both gone: an analyze request that completes after the
\* record was deleted leaves no collection of that project behind.
C26_NoCollectionBehindDeletedProject ==
    [][\A r \in reqs :
          (/\ r.kind = "analyze"
           /\ \A q \in reqs' : q.rid # r.rid
           /\ r.row \notin db_projects')
              => r.row.vector_store_id \notin DOMAIN collections']_vars

\* C28: a delete-project or analyze request naming a project id that does not
\* exist or belongs to another user is answered 404 and has no effect: no
\* Project record and no collection is created, changed or deleted and the
\* request goes no further; a request that does go on to the vector store or
\* to the agent names a project that exists and belongs to its caller.
C28_NotFoundHasNoEffect ==
    [][/\ (/\ received' = received + 1
           /\ last' # last
           /\ last'.kind \in { "delete", "analyze" }
           /\ last'.status = 404)
              => /\ UNCHANGED << db_projects, collections, reqs >>
                 /\ \A p \in db_projects :
                       ~ (p.id = last'.project_id /\ p.user_id = last'.user)
       /\ \A r \in reqs' :
             (received' = received + 1 /\ r.rid = received' /\ r.kind \in { "delete", "analyze" })
                => r.row \in db_projects /\ r.row.user_id = r.user]_vars

\* A request for the project of another user was answered 404.
C28_Witness ==
    /\ last.status = 404
    /\ last.kind \in { "delete", "analyze" }
    /\ \E p \in db_projects : p.id = last.project_id /\ p.user_id # last.user

(***************************************************************************)
(* Concurrent calls of process_codebase on the singleton                   *)
(*   _ingestion_service is one CodebaseIngestion for the whole process.    *)
(*   Its only attribute is text_splitter, set in __init__ and read         *)
(*   afterwards; all_chunks, all_metadatas, all_ids, file_count and        *)
(*   chunk_id are locals of each call, root_path is the call's own         *)
(*   temporary directory.  A run of the model is one call with its locals; *)
(*   the steps of the runs interleave freely, one file of the loop each.   *)
(***************************************************************************)
MaxRunFiles == 2

RunIds == 1..2

\* tempfile.TemporaryDirectory() of each call: a directory of its own.
RunTempDir(i) == IF i = 1 THEN << "tmp", "tmpk3x9" >> ELSE << "tmp", "tmpq7w2" >>

RunEntries ==
    { e \in EntryUniverse :
        RelPath(e) \in { << "src" >>, << "a.py" >>, << "src", "b.PY" >>, << "img.png" >>,
                         << "blank.md" >>, << "noread.py" >> }
        /\ Len(e.bytes.unit) <= 1 }

RunTrees ==
    { t \in SeqsUpTo(RunEntries, MaxRunFiles) : NoRepeat(t) }

\* The locals of a call at its start.
Run(root, tree) ==
    [ root |-> root, tree |-> tree, pos |-> 1, pc |-> "walking",
      all_chunks |-> << >>, all_metadatas |-> << >>, all_ids |-> << >>,
      file_count |-> 0, chunk_id |-> 0 ]

RunVisiting(i) == runs[i].pc = "walking" /\ runs[i].pos <= Len(runs[i].tree)

RunCurrent(i) == runs[i].tree[runs[i].pos]

NextChunkId_OnService(i) == runs[1].chunk_id + runs[2].chunk_id

\* chunk_id = 0 ... f"chunk_{chunk_id}"; chunk_id += 1: the counter is a
\* local of the call.
NextChunkId(i) == runs[i].chunk_id

\* if not file_path.is_file(): continue
RunSkipNotFile(i) ==
    /\ RunVisiting(i)
    /\ RunCurrent(i).kind # "file"
    /\ runs' = [runs EXCEPT ![i].pos = @ + 1]
    /\ UNCHANGED othersRuns

\* if not self.should_process_file(file_path): continue
RunSkipFiltered(i) ==
    /\ RunVisiting(i)
    /\ RunCurrent(i).kind = "file"
    /\ ~ should_process_file(PathOf(runs[i].root, RunCurrent(i)))
    /\ runs' = [runs EXCEPT ![i].pos = @ + 1]
    /\ UNCHANGED othersRuns

\* open() raises: the exception leaves the call.
RunReadRaises(i) ==
    /\ RunVisiting(i)
    /\ RunCurrent(i).kind = "file"
    /\ should_process_file(PathOf(runs[i].root, RunCurrent(i)))
    /\ read_file_content(RunCurrent(i)).raised
    /\ runs' = [runs EXCEPT ![i].pc = "raised"]
    /\ UNCHANGED othersRuns

\* if not content.strip(): continue
RunSkipEmpty(i) ==
    /\ RunVisiting(i)
    /\ RunCurrent(i).kind = "file"
    /\ should_process_file(PathOf(runs[i].root, RunCurrent(i)))
    /\ LET r == read_file_content(RunCurrent(i)) IN
           ~ r.raised /\ Strip(r.text) = EmptyText
    /\ runs' = [runs EXCEPT ![i].pos = @ + 1]
    /\ UNCHANGED othersRuns

\* The file is split and one record per chunk is appended to the lists of
\* this call.
RunIngestFile(i) ==
    /\ RunVisiting(i)
    /\ RunCurrent(i).kind = "file"
    /\ should_process_file(PathOf(runs[i].root, RunCurrent(i)))
    /\ LET r == read_file_content(RunCurrent(i)) IN
       /\ ~ r.raised
       /\ Strip(r.text) # EmptyText
       /\ LET chunks == split_text(r.text)
              n      == Len(chunks)
              e      == RunCurrent(i) IN
          runs' = [runs EXCEPT
                      ![i].file_count = @ + 1,
                      ![i].all_chunks = @ \o chunks,
                      ![i].all_metadatas = @ \o [ k \in 1..n |-> ChunkMetadata(e, k - 1, n) ],
                      ![i].all_ids = @ \o ChunkIds(NextChunkId(i), n),
                      ![i].chunk_id = @ + n,
                      ![i].pos = @ + 1]
    /\ UNCHANGED othersRuns

\* return all_chunks, all_metadatas, all_ids
RunReturn(i) ==
    /\ runs[i].pc = "walking"
    /\ runs[i].pos > Len(runs[i].tree)
    /\ runs' = [runs EXCEPT ![i].pc = "returned"]
    /\ UNCHANGED othersRuns

NextRuns ==
    \/ \E i \in RunIds : RunSkipNotFile(i)
    \/ \E i \in RunIds : RunSkipFiltered(i)
    \/ \E i \in RunIds : RunReadRaises(i)
    \/ \E i \in RunIds : RunSkipEmpty(i)
    \/ \E i \in RunIds : RunIngestFile(i)
    \/ \E i \in RunIds : RunReturn(i)

\* The records a call appends for the file e of its tree.
OwnRecord(r, k) ==
    \E e \in Range(r.tree) :
        /\ e.kind = "file"
        /\ r.all_metadatas[k].file_path = RelPath(e)
        /\ r.all_metadatas[k].file_name = e.name
        /\ \E c \in Range(split_text(read_file_content(e).text)) : r.all_chunks[k] = c

\* C25: ingestion runs that execute concurrently on the singleton share no
\* mutable state: at every point of every interleaving the ids of each run
\* are chunk_0, chunk_1, ... without a gap, and every chunk and file path a
\* run has collected comes from a file of its own tree.
C25_RunsShareNoState ==
    \A i \in DOMAIN runs :
        LET r == runs[i] IN
        /\ r.all_ids = [ k \in 1..Len(r.all_ids) |-> << "chunk_", k - 1 >> ]
        /\ Len(r.all_chunks) = Len(r.all_ids)
        /\ Len(r.all_metadatas) = Len(r.all_ids)
        /\ r.chunk_id = Len(r.all_ids)
        /\ \A k \in 1..Len(r.all_ids) : OwnRecord(r, k)

\* Both calls are between two files, each has collected the records of a
\* file the other one does not have, and one of them more than one record.
C25_Witness ==
    /\ DOMAIN runs = RunIds
    /\ \A i \in RunIds : runs[i].pc = "walking" /\ runs[i].pos = 2 /\ Len(runs[i].tree) = 2
    /\ Len(runs[1].all_ids) >= 2
    /\ Len(runs[2].all_ids) >= 1
    /\ \A k \in 1..Len(runs[1].all_ids) :
          \A e \in Range(runs[2].tree) : runs[1].all_metadatas[k].file_path # RelPath(e)
    /\ \A k \in 1..Len(runs[2].all_ids) :
          \A e \in Range(runs[1].tree) : runs[2].all_metadatas[k].file_path # RelPath(e)

(***************************************************************************)
(* POST /chat, POST /codebase/analyze and the conversations they write to  *)
(*   Both handlers await the model between looking the conversation up and *)
(*   storing the messages, so requests interleave at that point; POST and  *)
(*   DELETE /conversations run in between.  The conversation ids come from *)
(*   the table's counter and are not given out twice; a message whose      *)
(*   conversation is gone by the time of the INSERT violates the foreign   *)
(*   key and the transaction is rolled back.                               *)
(***************************************************************************)
MaxConversations == 2

MaxChatRequests == 2

ChatUsers == { 1, 2 }

\* conversation_id of a request: 0 stands for a request without one.
ConversationIds == 0..MaxConversations

\* role of request.messages[-1]; a request without messages has none and
\* is treated as one whose last message is not of the user.
LastRoles == { "user", "assistant" }

Conversation(id, user_id) == [id |-> id, user_id |-> user_id]

ChatMessage(conversation_id, role, by, rid) ==
    [conversation_id |-> conversation_id, role |-> role, by |-> by, rid |-> rid]

SelectConversation_AnyOwner(conversations, conversation_id, user) ==
    { c \in conversations : c.id = conversation_id }

\* select(Conversation).where(Conversation.id == conversation_id,
\*                            Conversation.user_id == user.id)
SelectConversation(conversations, conversation_id, user) ==
    { c \in conversations : c.id = conversation_id /\ c.user_id = user }

\* A handler in flight: the caller, the conversation_id of the request and
\* the conversation the handler holds (0 for none).  What else the request
\* carries is drawn where the handler reads it.
ChatRequest(rid, kind, user, requested, conv) ==
    [rid |-> rid, kind |-> kind, user |-> user, requested |-> requested, conv |-> conv]

\* The response to the request r: its status and the conversation_id in it.
Answer(r, status, conversation_id) ==
    [rid |-> r.rid, status |-> status, conversation_id |-> conversation_id]

\* POST /conversations
CreateConversation ==
    /\ chat.next_id <= MaxConversations
    /\ \E u \in ChatUsers :
          chat' = [chat EXCEPT !.conversations = @ \cup { Conversation(chat.next_id, u) },
                               !.next_id = @ + 1]
    /\ UNCHANGED othersChat

\* DELETE /conversations/{conversation_id}: the conversation of the caller
\* goes, with its messages (cascade).  Without one the answer is 404 and
\* nothing changes: no step.
DeleteConversation ==
    /\ \E u \in ChatUsers, id \in 1..MaxConversations :
          LET found == SelectConversation(chat.conversations, id, u) IN
          /\ found # {}
          /\ chat' = [chat EXCEPT
                         !.conversations = @ \ found,
                         !.messages = SelectSeq(@, LAMBDA m :
                                          \A c \in found : m.conversation_id # c.id)]
    /\ UNCHANGED othersChat

\* chat, up to the first call of the model: the conversation is looked up
\* when the request names one; without a row of the caller a new one is
\* created and committed.
ChatLookup ==
    /\ chat.received < MaxChatRequests
    /\ \E u \in ChatUsers, id \in ConversationIds :
          LET found == IF id # 0 THEN SelectConversation(chat.conversations, id, u) ELSE {}
              rid   == chat.received + 1 IN
          IF found # {}
          THEN chat' = [chat EXCEPT
                           !.received = rid,
                           !.pending = @ \cup { ChatRequest(rid, "chat", u, id,
                                                            (CHOOSE c \in found : TRUE).id) }]
          ELSE /\ chat.next_id <= MaxConversations
               /\ chat' = [chat EXCEPT
                              !.received = rid,
                              !.conversations = @ \cup { Conversation(chat.next_id, u) },
                              !.next_id = @ + 1,
                              !.pending = @ \cup { ChatRequest(rid, "chat", u, id,
                                                               chat.next_id) }]
    /\ UNCHANGED othersChat

\* generate_reply raises HTTPException(502): it is raised again, nothing of
\* the request is stored.
ChatReplyFails ==
    /\ \E r \in chat.pending :
          /\ r.kind = "chat"
          /\ chat' = [chat EXCEPT !.pending = @ \ { r }, !.answer = Answer(r, 502, 0)]
    /\ UNCHANGED othersChat

\* The rows chat adds once it has the reply: the last message of the request
\* when its role is "user", then the reply.
ChatRows(r, last_role) ==
    (IF last_role = "user" THEN << ChatMessage(r.conv, "user", r.user, r.rid) >> ELSE << >>)
        \o << ChatMessage(r.conv, "assistant", r.user, r.rid) >>

\* chat, from the reply on: the rows are added, flushed and committed.  The
\* foreign key fails when the conversation was deleted in between; the
\* exception becomes a 500 and the session is closed without a commit.
ChatPersist ==
    /\ \E r \in chat.pending, last_role \in LastRoles :
          /\ r.kind = "chat"
          /\ IF \E c \in chat.conversations : c.id = r.conv
             THEN chat' = [chat EXCEPT !.pending = @ \ { r },
                                       !.messages = @ \o ChatRows(r, last_role),
                                       !.answer = Answer(r, 200, r.conv)]
             ELSE chat' = [chat EXCEPT !.pending = @ \ { r },
                                       !.answer = Answer(r, 500, 0)]
    /\ UNCHANGED othersChat

\* analyze_codebase, up to await agent.analyze(...), for a project of the
\* caller.
AnalyzeBegin ==
    /\ chat.received < MaxChatRequests
    /\ \E u \in ChatUsers, id \in ConversationIds :
          chat' = [chat EXCEPT
                      !.received = @ + 1,
                      !.pending = @ \cup { ChatRequest(chat.received + 1, "analyze", u, id, 0) }]
    /\ UNCHANGED othersChat

\* agent.analyze raises: the handler has stored nothing.
AnalyzeFails ==
    /\ \E r \in chat.pending :
          /\ r.kind = "analyze"
          /\ chat' = [chat EXCEPT !.pending = @ \ { r }, !.answer = Answer(r, 500, 0)]
    /\ UNCHANGED othersChat

\* analyze_codebase, after the reply: with a conversation_id the
\* conversation of the caller is selected; when there is one, the question
\* and the reply are added and committed.  The reply is returned in every
\* case, with the conversation_id of the request.
AnalyzeSave ==
    /\ \E r \in chat.pending :
          /\ r.kind = "analyze"
          /\ LET found == IF r.requested # 0
                          THEN SelectConversation(chat.conversations, r.requested, r.user)
                          ELSE {}
                 q     == [r EXCEPT !.conv = r.requested] IN
             chat' = [chat EXCEPT
                         !.pending = @ \ { r },
                         !.messages = IF found # {}
                                      THEN @ \o << ChatMessage(q.conv, "user", q.user, q.rid),
                                                   ChatMessage(q.conv, "assistant", q.user, q.rid) >>
                                      ELSE @,
                         !.answer = Answer(q, 200, r.requested)]
    /\ UNCHANGED othersChat

NextChat ==
    \/ CreateConversation
    \/ DeleteConversation
    \/ ChatLookup
    \/ ChatReplyFails
    \/ ChatPersist
    \/ AnalyzeBegin
    \/ AnalyzeFails
    \/ AnalyzeSave

\* The owner of the conversation with this id, 0 when there is none.
OwnerOf(conversations, id) ==
    IF \E c \in conversations : c.id = id
    THEN (CHOOSE c \in conversations : c.id = id).user_id
    ELSE 0

\* Every stored message is in a conversation of the user whose request
\* stored it, and the user message of a request precedes its reply.
MessagesWithTheirOwner(tables) ==
    /\ \A k \in 1..Len(tables.messages) :
          OwnerOf(tables.conversations, tables.messages[k].conversation_id)
              = tables.messages[k].by
    /\ \A j, k \in 1..Len(tables.messages) :
          (/\ tables.messages[j].rid = tables.messages[k].rid
           /\ tables.messages[j].role = "user"
           /\ tables.messages[k].role = "assistant") => j < k

\* The caller has no conversation with this id.
NotOwned(tables, id, user) ==
    \A c \in tables.conversations : ~ (c.id = id /\ c.user_id = user)

\* C30: no chat or analyze request stores a message in a conversation of
\* another user.  A /chat request whose conversation_id names no
\* conversation of the caller continues with a conversation that did not
\* exist before and belongs to the caller, and the messages a /chat request
\* stores go to the conversation it continues with; an /codebase/analyze
\* request whose conversation_id names no conversation of the caller stores
\* nothing and still returns its reply with status 200; a stored user
\* message precedes the assistant message of its request.
C30_NoMessageInForeignConversation ==
    [][/\ MessagesWithTheirOwner(chat')
       /\ \A r \in chat'.pending \ chat.pending :
             (r.kind = "chat" /\ NotOwned(chat, r.requested, r.user))
                => /\ \A c \in chat.conversations : c.id # r.conv
                   /\ Conversation(r.conv, r.user) \in chat'.conversations
       /\ \A r \in chat.pending \ chat'.pending :
             /\ (r.kind = "chat" /\ chat'.answer.status = 200)
                   => /\ chat'.answer.conversation_id = r.conv
                      /\ Len(chat'.messages) > Len(chat.messages)
                      /\ SubSeq(chat'.messages, 1, Len(chat.messages)) = chat.messages
                      /\ \A k \in (Len(chat.messages) + 1)..Len(chat'.messages) :
                            /\ chat'.messages[k].conversation_id = r.conv
                            /\ chat'.messages[k].rid = r.rid
             /\ (r.kind = "analyze" /\ NotOwned(chat, r.requested, r.user))
                   => /\ chat'.messages = chat.messages
                      /\ chat'.answer.rid = r.rid
                      /\ chat'.answer.status # 500
                            => /\ chat'.answer.status = 200
                               /\ chat'.answer.conversation_id = r.requested]_vars

\* A /chat request that named the conversation of another user has stored
\* its user message and its reply in a conversation of its own, while the
\* conversation it named holds messages of its owner.
C30_Witness ==
    /\ chat.answer.status = 200
    /\ \E j, k, n \in 1..Len(chat.messages) :
          /\ j < k
          /\ chat.messages[j].rid = chat.answer.rid /\ chat.messages[j].role = "user"
          /\ chat.messages[k].rid = chat.answer.rid /\ chat.messages[k].role = "assistant"
          /\ chat.messages[k].conversation_id = chat.answer.conversation_id
          /\ chat.messages[n].by # chat.messages[k].by
          /\ chat.answer.conversation_id > chat.messages[n].conversation_id
          /\ chat.answer.rid > chat.messages[n].rid

(***************************************************************************)
(* Specifications.  Each runs one part of the model; the variables of the  *)
(* other parts keep their initial values.                                  *)
(***************************************************************************)
InitFile ==
    /\ fl_op = "none" /\ fl_arg = "none" /\ fl_res = "none"
    /\ ing_source = NoSource /\ ing_root = << >> /\ ing_tree = << >>
    /\ ing_pos = 1 /\ ing_pc = "returned" /\ ing_tempdir = FALSE /\ ing_exc = NoExc
    /\ all_chunks = << >> /\ all_metadatas = << >> /\ all_ids = << >>
    /\ file_count = 0 /\ chunk_id = 0
    /\ handler = NoHandler
    /\ an_pc = "returned" /\ an_question = "none" /\ an_history = << >>
    /\ an_hits = << >> /\ an_context = << >> /\ an_files = << >> /\ an_prompt = << >>
    /\ an_calls = << >> /\ an_primary = "none" /\ an_fallback = NotRun
    /\ an_result = NoResult
    /\ db_projects = {} /\ db_next_id = 1 /\ collections = << >> /\ clock = 0
    /\ received = 0 /\ reqs = {} /\ last = NoResponse
    /\ vs_handles = {} /\ vs_last = NoCall
    /\ runs = << >> /\ chat = NoChat

InitIngest ==
    /\ fl_op = "none" /\ fl_arg = "none" /\ fl_res = "none"
    /\ ing_source \in Sources(MaxFiles)
    /\ ing_root = RootPath(ing_source)
    /\ ing_tree = Rglob(ing_source, RootPath(ing_source))
    /\ ing_pos = 1 /\ ing_pc = "walking" /\ ing_tempdir = TRUE /\ ing_exc = NoExc
    /\ all_chunks = << >> /\ all_metadatas = << >> /\ all_ids = << >>
    /\ file_count = 0 /\ chunk_id = 0
    /\ handler = NoHandler
    /\ an_pc = "returned" /\ an_question = "none" /\ an_history = << >>
    /\ an_hits = << >> /\ an_context = << >> /\ an_files = << >> /\ an_prompt = << >>
    /\ an_calls = << >> /\ an_primary = "none" /\ an_fallback = NotRun
    /\ an_result = NoResult
    /\ db_projects = {} /\ db_next_id = 1 /\ collections = << >> /\ clock = 0
    /\ received = 0 /\ reqs = {} /\ last = NoResponse
    /\ vs_handles = {} /\ vs_last = NoCall
    /\ runs = << >> /\ chat = NoChat

InitAnalyze ==
    /\ fl_op = "none" /\ fl_arg = "none" /\ fl_res = "none"
    /\ ing_source = NoSource /\ ing_root = << >> /\ ing_tree = << >>
    /\ ing_pos = 1 /\ ing_pc = "returned" /\ ing_tempdir = FALSE /\ ing_exc = NoExc
    /\ all_chunks = << >> /\ all_metadatas = << >> /\ all_ids = << >>
    /\ file_count = 0 /\ chunk_id = 0
    /\ handler = NoHandler
    /\ an_pc = "idle" /\ an_question = "none" /\ an_history = << >>
    /\ an_hits = << >> /\ an_context = << >> /\ an_files = << >> /\ an_prompt = << >>
    /\ an_calls = << >> /\ an_primary = "none" /\ an_fallback = NotRun
    /\ an_result = NoResult
    /\ db_projects = {} /\ db_next_id = 1 /\ collections = << >> /\ clock = 0
    /\ received = 0 /\ reqs = {} /\ last = NoResponse
    /\ vs_handles = {} /\ vs_last = NoCall
    /\ runs = << >> /\ chat = NoChat

InitRequest ==
    /\ fl_op = "none" /\ fl_arg = "none" /\ fl_res = "none"
    /\ ing_source \in RequestSources /\ ing_root = << >> /\ ing_tree = << >>
    /\ ing_pos = 1 /\ ing_pc = "start" /\ ing_tempdir = FALSE /\ ing_exc = NoExc
    /\ all_chunks = << >> /\ all_metadatas = << >> /\ all_ids = << >>
    /\ file_count = 0 /\ chunk_id = 0
    /\ handler = Handler("received", FALSE, 0, << >>, FALSE, FALSE)
    /\ an_pc = "returned" /\ an_question = "none" /\ an_history = << >>
    /\ an_hits = << >> /\ an_context = << >> /\ an_files = << >> /\ an_prompt = << >>
    /\ an_calls = << >> /\ an_primary = "none" /\ an_fallback = NotRun
    /\ an_result = NoResult
    /\ db_projects = {} /\ db_next_id = 1 /\ collections = << >> /\ clock = 0
    /\ received = 0 /\ reqs = {} /\ last = NoResponse
    /\ vs_handles = {} /\ vs_last = NoCall
    /\ runs = << >> /\ chat = NoChat

InitStore ==
    /\ fl_op = "none" /\ fl_arg = "none" /\ fl_res = "none"
    /\ ing_source = NoSource /\ ing_root = << >> /\ ing_tree = << >>
    /\ ing_pos = 1 /\ ing_pc = "returned" /\ ing_tempdir = FALSE /\ ing_exc = NoExc
    /\ all_chunks = << >> /\ all_metadatas = << >> /\ all_ids = << >>
    /\ file_count = 0 /\ chunk_id = 0
    /\ handler = NoHandler
    /\ an_pc = "returned" /\ an_question = "none" /\ an_history = << >>
    /\ an_hits = << >> /\ an_context = << >> /\ an_files = << >> /\ an_prompt = << >>
    /\ an_calls = << >> /\ an_primary = "none" /\ an_fallback = NotRun
    /\ an_result = NoResult
    /\ db_projects = {} /\ db_next_id = 1 /\ collections = << >> /\ clock = 0
    /\ received = 0 /\ reqs = {} /\ last = NoResponse
    /\ vs_handles = {} /\ vs_last = NoCall
    /\ runs = << >> /\ chat = NoChat

Init ==
    /\ fl_op = "none" /\ fl_arg = "none" /\ fl_res = "none"
    /\ ing_source = NoSource /\ ing_root = << >> /\ ing_tree = << >>
    /\ ing_pos = 1 /\ ing_pc = "returned" /\ ing_tempdir = FALSE /\ ing_exc = NoExc
    /\ all_chunks = << >> /\ all_metadatas = << >> /\ all_ids = << >>
    /\ file_count = 0 /\ chunk_id = 0
    /\ handler = NoHandler
    /\ an_pc = "returned" /\ an_question = "none" /\ an_history = << >>
    /\ an_hits = << >> /\ an_context = << >> /\ an_files = << >> /\ an_prompt = << >>
    /\ an_calls = << >> /\ an_primary = "none" /\ an_fallback = NotRun
    /\ an_result = NoResult
    /\ db_projects = {} /\ db_next_id = 1 /\ collections = << >> /\ clock = 0
    /\ received = 0 /\ reqs = {} /\ last = NoResponse
    /\ vs_handles = {} /\ vs_last = NoCall
    /\ runs = << >> /\ chat = NoChat

InitRuns ==
    /\ fl_op = "none" /\ fl_arg = "none" /\ fl_res = "none"
    /\ ing_source = NoSource /\ ing_root = << >> /\ ing_tree = << >>
    /\ ing_pos = 1 /\ ing_pc = "returned" /\ ing_tempdir = FALSE /\ ing_exc = NoExc
    /\ all_chunks = << >> /\ all_metadatas = << >> /\ all_ids = << >>
    /\ file_count = 0 /\ chunk_id = 0
    /\ handler = NoHandler
    /\ an_pc = "returned" /\ an_question = "none" /\ an_history = << >>
    /\ an_hits = << >> /\ an_context = << >> /\ an_files = << >> /\ an_prompt = << >>
    /\ an_calls = << >> /\ an_primary = "none" /\ an_fallback = NotRun
    /\ an_result = NoResult
    /\ db_projects = {} /\ db_next_id = 1 /\ collections = << >> /\ clock = 0
    /\ received = 0 /\ reqs = {} /\ last = NoResponse
    /\ vs_handles = {} /\ vs_last = NoCall
    /\ runs \in { [ i \in RunIds |-> Run(RunTempDir(i), IF i = 1 THEN t1 ELSE t2) ] :
                     t1 \in RunTrees, t2 \in RunTrees }
    /\ chat = NoChat

InitChat ==
    /\ fl_op = "none" /\ fl_arg = "none" /\ fl_res = "none"
    /\ ing_source = NoSource /\ ing_root = << >> /\ ing_tree = << >>
    /\ ing_pos = 1 /\ ing_pc = "returned" /\ ing_tempdir = FALSE /\ ing_exc = NoExc
    /\ all_chunks = << >> /\ all_metadatas = << >> /\ all_ids = << >>
    /\ file_count = 0 /\ chunk_id = 0
    /\ handler = NoHandler
    /\ an_pc = "returned" /\ an_question = "none" /\ an_history = << >>
    /\ an_hits = << >> /\ an_context = << >> /\ an_files = << >> /\ an_prompt = << >>
    /\ an_calls = << >> /\ an_primary = "none" /\ an_fallback = NotRun
    /\ an_result = NoResult
    /\ db_projects = {} /\ db_next_id = 1 /\ collections = << >> /\ clock = 0
    /\ received = 0 /\ reqs = {} /\ last = NoResponse
    /\ vs_handles = {} /\ vs_last = NoCall
    /\ runs = << >>
    /\ chat = NoChat

SpecFile == InitFile /\ [][NextFile]_vars

SpecIngest == InitIngest /\ [][NextIngest]_vars

SpecRequest == InitRequest /\ [][NextRequest]_vars

SpecStore == InitStore /\ [][NextStore]_vars

SpecAnalyze == InitAnalyze /\ [][NextAnalyze]_vars

SpecRuns == InitRuns /\ [][NextRuns]_vars

SpecChat == InitChat /\ [][NextChat]_vars

Spec == Init /\ [][Next]_vars

====
